---- MODULE Spec2Model ----
(***************************************************************************)
(* Model of the multi-instrument analysis scheduler (AnalyzerManager) and  *)
(* of the per-instrument analysis pipeline (StockAnalyzer.Analyze) of the  *)
(* AI stock analysis system.                                               *)
(*                                                                         *)
(* Spec         the scheduler: StartAll in its two strategies, the         *)
(*              per-instrument loops, the polling driver, TriggerAnalysis, *)
(*              the history store, StopAll, restart and signal handling.   *)
(* SpecPolling  the same with the configurations that select the polling   *)
(*              strategy, smart mode with more than four instruments       *)
(*              included.                                                  *)
(* SpecSweep    the polling driver on its own, with no TriggerAnalysis     *)
(*              request beside it.                                         *)
(* SpecRunning  every strategy and TriggerAnalysis while no stop, restart   *)
(*              or signal is requested.                                    *)
(* SpecScheduled  the loops, the driver and the lifecycle, with no         *)
(*              TriggerAnalysis request beside them.                       *)
(* SpecAnalyze  one Analyze call, step by step, over bounded market data.  *)
(* SpecMode     StartAll alone, over every mode, capacity and instrument   *)
(*              count up to MaxModeStocks.                                 *)
(* SpecStop     the loops, the driver and the lifecycle under the fair     *)
(*              scheduling of the goroutines.                              *)
(* SpecNotify   MultiNotifier.SendSignal, sink by sink.                    *)
(* SpecHook     one webhook send of the DingTalk or Feishu notifier.       *)
(* SpecRestart  the restart endpoint, its callback and the signal handler. *)
(* SpecStore    the history store in memory: an inserting goroutine and a  *)
(*              reading request under the RWMutex.                         *)
(* SpecConfig   LoadStockConfig and Validate over configuration files.     *)
(* SpecIndicators  the indicators of the daily candles, by value.          *)
(* SpecSave     POST /api/config: the backup rename and the write, of      *)
(*              requests that run side by side.                            *)
(* SpecTick     the polling goroutine with wall-clock time.                *)
(* SpecFair     the goroutines of either strategy under fair scheduling,   *)
(*              with no bound on the analyses made.                        *)
(***************************************************************************)
EXTENDS Integers, Sequences, FiniteSets, TLC

(***************************************************************************)
(* Bounds of the model.                                                    *)
(***************************************************************************)
\* instruments enabled in the small configurations
NumStocks == 2
\* results produced by Analyze over a run (the logical clock stops there)
MaxClock == 4
\* TriggerAnalysis requests that may be in progress at the same time
MaxTriggers == 1
\* instruments that TriggerAnalysis requests name (the first ones)
NumTriggerCodes == 1
\* enabled instruments, where only the choice of the strategy is followed
MaxModeStocks == 6
\* calls of Analyze on the analyzer that is followed step by step
MaxCalls == 2
\* sinks wrapped by a MultiNotifier; SendSignal calls on it
MaxSinks == 3
MaxSends == 2
\* restart requests made to the control plane
MaxRequests == 2
\* saveAnalysisResult calls on the history store that is followed in memory
MaxInserts == 3
\* instruments in a configuration file
MaxItems == 2

(***************************************************************************)
(* Program constants.                                                      *)
(***************************************************************************)
\* determineAnalysisMode: smart mode runs concurrently up to this many stocks
SmartLimit == 4
\* main: the history cap is clamped to [MinHistory, MaxHistory]
MinHistory == 3
MaxHistory == 100
\* Validate: default of analysis_history_limit
DefaultHistory == 20
\* GetAnalysisHistory: default of limit
DefaultLimit == 20
RecentLimit == 10

\* Validate: largest max_concurrent_analysis
MaxConcurrentLimit == 4
\* SetDefaults: default of min_confidence
DefaultMinConfidence == 70
\* parseAIResponse: confidence of the fallback result
FallbackConfidence == 30
\* Analyze: daily candles asked of GetKline
DayCandles == 60

Min(a, b) == IF a < b THEN a ELSE b

\* the first n entries of s (Go's s[:n] for n <= len(s))
Take(s, n) == SubSeq(s, 1, Min(n, Len(s)))

RECURSIVE Reverse(_)
Reverse(s) == IF s = <<>> THEN <<>> ELSE Append(Reverse(Tail(s)), Head(s))

(***************************************************************************)
(* Configuration as main receives it from config.LoadStockConfig.          *)
(***************************************************************************)
\* analysis_history_limit values of the configuration file that are tried
HistoryLimitChoices == {1}
\* (analysis_mode, max_concurrent_analysis, number of enabled instruments)
\* that are tried: each strategy with few instruments, the concurrent one
\* with fewer slots than instruments
Configs ==
    { <<"polling", 3, NumStocks>>, <<"smart", 3, NumStocks>>,
      <<"concurrent", NumStocks - 1, NumStocks>> }
\* the configurations in which a stop is followed to the exit of every
\* goroutine: each strategy, smart mode with one instrument less
StopConfigs ==
    { <<"polling", 3, NumStocks>>, <<"smart", 3, NumStocks - 1>>,
      <<"concurrent", NumStocks - 1, NumStocks>> }
\* the configurations whose strategy is polling: by name, and by smart mode
\* past its limit
PollingConfigs ==
    { <<"polling", 3, NumStocks>>, <<"smart", 3, SmartLimit + 1>> }

\* every analysis_mode with every capacity Validate lets through and with
\* instrument counts on both sides of the limit of smart mode
ModeConfigs ==
    { <<m, p, n>> : m \in {"polling", "smart", "concurrent"},
                    p \in 1 .. MaxConcurrentLimit, n \in 1 .. MaxModeStocks }

\* StockConfig.Validate, analysis_history_limit
ValidateHistoryLimit(l) ==
    IF l <= 0 THEN DefaultHistory
    ELSE IF l < MinHistory THEN MinHistory
    ELSE IF l > MaxHistory THEN MaxHistory
    ELSE l

\* main: maxHistorySize := cfg.AnalysisHistoryLimit clamped to [3,100]
ClampHistory(l) ==
    IF l < MinHistory THEN MinHistory
    ELSE IF l > MaxHistory THEN MaxHistory
    ELSE l

(***************************************************************************)
(* State.  Instrument codes are 1..stockCount; a result is identified by   *)
(* its code and its timestamp (the value of the clock when parseAIResponse *)
(* built it).                                                              *)
(***************************************************************************)
VARIABLES
    analysisMode,     \* AnalyzerManager.analysisMode
    maxConcurrent,    \* AnalyzerManager.maxConcurrent
    stockCount,       \* AnalyzerManager.stockCount = number of analyzers
    maxHistorySize,   \* AnalyzerManager.maxHistorySize
    stopChans,        \* code -> number of close() calls made on its channel
    analysisHistory,  \* code -> sequence of results, newest first
    semaphore,        \* NoSemaphore, or [cap, held]: the buffered channel
    started,          \* StartAll has run
    loop,             \* code -> state of its goroutine (concurrent strategy)
    driver,           \* state of the polling goroutine; driver.swept is the
                      \* sequence of codes its initial sweep has analysed
    trig,             \* the TriggerAnalysis calls in progress
    clock,            \* time.Now(), as a logical clock
    restarting,       \* a restart callback is between StopAll and os.Exit
    signalled,        \* main is between its StopAll and its return
    crash,            \* "none", or the panic that killed the process
    exited,           \* the process has exited
    inserted,         \* code -> results passed to saveAnalysisResult, in order
    \* one StockAnalyzer and its Analyze call (SpecAnalyze)
    aCfg,             \* AnalysisConfig and Notifier of the analyzer
    apc,              \* position of the call inside Analyze
    aData,            \* what the market-data fetches returned
    technical,        \* keys of the map calculateTechnicalIndicators built
    aResult,          \* the AnalysisResult parseAIResponse built
    sent,             \* results handed to Notifier.SendSignal by this call
    aRet,             \* how the call ended
    aCalls,           \* calls of Analyze so far; the Timestamp of a result
    aLog,             \* services this call has called
    aHistory,         \* the history list of the analyzer's code
    \* one MultiNotifier and its SendSignal call (SpecNotify)
    multi,            \* the Notifiers slice and the locals of the call
    \* the components around the scheduler, each in a specification of its own
    hook,             \* one webhook send of a DingTalk or Feishu notifier
    rst,              \* the POST /api/system/restart requests and their callbacks
    conf,             \* the configuration file, what LoadStockConfig made
                      \* of it, and what main did with the outcome
    hs,               \* the history store in memory: backing arrays, the
                      \* slice of each code, the RWMutex, one inserting
                      \* goroutine and one reading request
    ind,              \* a daily candle series and the indicator snapshot
                      \* calculateTechnicalIndicators made of it
    sv,               \* config_stock.json on disk, its backups, and the
                      \* POST /api/config requests, which run side by side
    pd,               \* the polling goroutine with wall-clock time: the
                      \* scan intervals, lastAnalysis and the ticker
    fair              \* the goroutines of StartAll without result stamps,
                      \* for the progress of each instrument

schedVars == <<stopChans, analysisHistory, semaphore, started, loop, driver,
               trig, clock, restarting, signalled, crash, exited, inserted>>

cfgVars == <<analysisMode, maxConcurrent, stockCount, maxHistorySize>>

pipeVars == <<aCfg, apc, aData, technical, aResult, sent, aRet, aCalls, aLog,
              aHistory>>

notifyVars == <<multi>>

lateVars == <<ind, sv, pd, fair>>
edgeVars == <<hook, rst, hs, conf, lateVars>>
\* the edge variables a component leaves alone
edgeButHook == <<rst, hs, conf, lateVars>>
edgeButRst == <<hook, hs, conf, lateVars>>
edgeButStore == <<hook, rst, conf, lateVars>>
edgeButConf == <<hook, rst, hs, lateVars>>
edgeButInd == <<hook, rst, hs, conf, sv, pd, fair>>
edgeButSave == <<hook, rst, hs, conf, ind, pd, fair>>
edgeButTick == <<hook, rst, hs, conf, ind, sv, fair>>
edgeButFair == <<hook, rst, hs, conf, ind, sv, pd>>

vars == <<cfgVars, schedVars, pipeVars, notifyVars, edgeVars>>

Codes == 1 .. stockCount
\* the instruments that TriggerAnalysis requests name
TriggerCodes == 1 .. Min(NumTriggerCodes, stockCount)
\* a code that was never added to the manager
UnknownCodes == {stockCount + 1}
RECURSIVE Sum(_, _)
Sum(f, S) == IF S = {} THEN 0
             ELSE LET x == CHOOSE y \in S : TRUE IN f[x] + Sum(f, S \ {x})
\* no TriggerAnalysis call in progress: per code, the calls inside Analyze;
\* the results that parseAIResponse has stamped in calls still inside
\* Analyze; and the results returned by Analyze and not yet saved
NoTriggers ==
    [analyzing |-> [c \in TriggerCodes |-> 0], parsed |-> {}, saving |-> {}]
NoData == [prevClose |-> 0, dish |-> 0, buyLevels |-> 0, sellLevels |-> 0, nDay |-> 0]
\* AnalysisResult.PositionInfo is nil
NoPosition ==
    [present |-> FALSE, totalCost |-> 0, marketValue |-> 0, profitLoss |-> 0]
NoDecision ==
    [signal |-> "", confidence |-> 0, fallback |-> FALSE, reasoning |-> "", ts |-> 0,
     positionInfo |-> NoPosition]
NoSemaphore == [cap |-> 0, held |-> 0, nil |-> TRUE]
NoResult == [code |-> 0, ts |-> 0]

alwaysConcurrent(mode, maxc, count) == <<"concurrent", maxc>>

\* AnalyzerManager.determineAnalysisMode: <<actual mode, actual capacity>>
determineAnalysisMode(mode, maxc, count) ==
    IF mode = "polling" THEN <<"polling", 1>>
    ELSE IF mode = "concurrent" THEN <<"concurrent", maxc>>
    ELSE IF count <= SmartLimit
         THEN <<"concurrent", IF count > SmartLimit THEN SmartLimit ELSE count>>
         ELSE <<"polling", 1>>

actualMode == determineAnalysisMode(analysisMode, maxConcurrent, stockCount)[1]
actualMaxConcurrent == determineAnalysisMode(analysisMode, maxConcurrent, stockCount)[2]

\* saveAnalysisResult on one list: prepend, then cut to maxSize
saveNoTruncate(history, result, maxSize) == <<result>> \o history
saveAtTail(history, result, maxSize) ==
    LET h == Append(history, result)
    IN  IF Len(h) > maxSize THEN SubSeq(h, 1, maxSize) ELSE h
saveAnalysisResult(history, result, maxSize) ==
    LET h == <<result>> \o history
    IN  IF Len(h) > maxSize THEN SubSeq(h, 1, maxSize) ELSE h

\* AnalyzerManager.GetAnalysisHistory
GetAnalysisHistory(code, limit) ==
    LET lim == IF limit <= 0 THEN DefaultLimit ELSE limit
        history == IF code \in DOMAIN analysisHistory
                   THEN analysisHistory[code] ELSE <<>>
    IN  IF Len(history) > lim THEN SubSeq(history, 1, lim) ELSE history

\* a send on the semaphore channel can proceed
semaphoreAlwaysFree(sem) == TRUE
semaphoreFree(sem) == sem.held < sem.cap

alive == crash = "none" /\ ~exited

\* Analyze calls in flight, by caller
loopInFlight == {c \in Codes : loop[c].pc = "analyzing"}
driverInFlight == IF driver.pc \in {"sweepAnalyzing", "checkAnalyzing"}
                  THEN {driver.list[driver.idx]} ELSE {}
trigInFlight == Sum(trig.analyzing, TriggerCodes)
trigInProgress == trigInFlight + Cardinality(trig.saving)
inFlightCount ==
    Cardinality(loopInFlight) + Cardinality(driverInFlight) + trigInFlight

\* loops blocked in m.semaphore <- struct{}{}, about to call Analyze
loopWaiting == {c \in Codes : loop[c].pc = "acquire"}

\* Analyze calls in flight whose result parseAIResponse has not stamped
unstampedCount ==
    Cardinality({c \in loopInFlight : loop[c].res = NoResult})
    + (IF driverInFlight # {} /\ driver.res = NoResult THEN 1 ELSE 0)
    + trigInFlight - Cardinality(trig.parsed)

\* the clock is bounded: a call is set off only if its result, and the
\* results of the calls already set off, can be stamped
canBegin == clock + unstampedCount + Cardinality(loopWaiting) < MaxClock

InitWith(configs) ==
    /\ \E cfg \in configs :
          /\ analysisMode = cfg[1]
          /\ maxConcurrent = cfg[2]
          /\ stockCount = cfg[3]
    /\ maxHistorySize \in {ClampHistory(ValidateHistoryLimit(l)) : l \in HistoryLimitChoices}
    /\ stopChans = [c \in 1 .. stockCount |-> 0]
    /\ analysisHistory = [c \in 1 .. stockCount |-> <<>>]
    /\ semaphore = NoSemaphore
    /\ started = FALSE
    /\ loop = [c \in 1 .. stockCount |-> [pc |-> "off", res |-> NoResult]]
    /\ driver = [pc |-> "off", list |-> <<>>, idx |-> 0, res |-> NoResult,
                swept |-> <<>>]
    /\ trig = [analyzing |-> [c \in 1 .. Min(NumTriggerCodes, stockCount) |-> 0],
               parsed |-> {}, saving |-> {}]
    /\ clock = 0
    /\ restarting = FALSE
    /\ signalled = FALSE
    /\ crash = "none"
    /\ exited = FALSE
    /\ inserted = [c \in 1 .. stockCount |-> <<>>]

\* no Analyze call is followed step by step
PipeIdle ==
    /\ aCfg = [enable |-> FALSE, hasNotifier |-> FALSE,
               minConfidence |-> DefaultMinConfidence,
               quantity |-> 0, buyPrice |-> 0]
    /\ apc = "idle"
    /\ aData = NoData
    /\ technical = {}
    /\ aResult = NoDecision
    /\ sent = {}
    /\ aRet = "none"
    /\ aCalls = 0
    /\ aLog = {}
    /\ aHistory = <<>>

\* createNotifier wraps the DingTalk and the Feishu sink, when both are
\* enabled, in one MultiNotifier; no SendSignal call is followed on it
MultiOf(n) ==
    [n |-> n, pc |-> "idle", signal |-> "", idx |-> 0, invoked |-> <<>>,
     errors |-> <<>>, ret |-> "none", calls |-> 0]
NotifierIdle == multi = MultiOf(2)

\* no webhook request is followed
NoCode == [kind |-> "absent", num |-> 0]
NoResponse ==
    [transport |-> "", status |-> 0, read |-> FALSE, body |-> "other",
     errcode |-> NoCode, code |-> NoCode]
NoHook == [pc |-> "idle", provider |-> "", resp |-> NoResponse, ret |-> "none"]
HookIdle == hook = NoHook

\* no restart request was made: the last request and its answer, the
\* statuses answered so far, the callbacks asleep and the callbacks invoked
NoRequest == [header |-> "", body |-> [bind |-> FALSE, token |-> ""]]
NoRestart ==
    [last |-> NoRequest, status |-> 0, answered |-> <<>>, pending |-> 0,
     invoked |-> 0]
RestartIdle == rst = NoRestart

\* a slice is a backing array (0: none) and a length; the store is empty,
\* the mutex free, no insert and no read under way
NilSlice == [arr |-> 0, len |-> 0]
NoInsert == [pc |-> "idle", code |-> 0, result |-> NoResult, local |-> NilSlice, count |-> 0]
NoRead ==
    [pc |-> "idle", kind |-> "", code |-> 0, limit |-> 0, visited |-> {},
     heads |-> <<>>, got |-> NilSlice, snapshot |-> <<>>, window |-> {},
     at |-> <<>>]
StoreIdle ==
    hs = [arrays |-> <<>>, hist |-> [c \in 1 .. stockCount |-> NilSlice],
          mu |-> [writer |-> FALSE, readers |-> 0],
          ins |-> NoInsert, rd |-> NoRead]

\* a configuration file that passes validation unchanged.  Prices are in
\* cents, codes are numbers (0: the empty string)
GoodItem ==
    [code |-> 1, named |-> TRUE, enabled |-> TRUE, scanIntervalMinutes |-> 3,
     minConfidence |-> 50, positionQuantity |-> 0, buyPrice |-> 0]
GoodConfig ==
    [tdxApiUrl |-> "url", ai |-> "ok", stocks |-> <<GoodItem>>,
     apiServerPort |-> 8080, logDir |-> "logs", analysisHistoryLimit |-> 50,
     analysisMode |-> "polling", maxConcurrentAnalysis |-> 2,
     timezone |-> "UTC", tradingHours |-> "set", apiToken |-> "mine",
     notification |-> "ok"]
ConfigOf(c) ==
    [pc |-> "file", in |-> c, env |-> "", err |-> "", out |-> c, again |-> c]
ConfIdle == conf = ConfigOf(GoodConfig)

\* no candle series was handed to calculateTechnicalIndicators
NoSnapshot == [keys |-> {}, ma5 |-> 0, ma10 |-> 0, ma20 |-> 0, ma60 |-> 0,
               rsi14 |-> 0, variance |-> <<0, 1>>]
IndIdle == ind = [pc |-> "idle", closes |-> <<>>, out |-> NoSnapshot]

\* POST /api/config requests that are followed
MaxSaves == 2
\* seconds of the clock that names the backups
MaxSeconds == 2

\* the files of the directory: the one config_stock.json names at first,
\* and one that each request can create; 0 stands for no file
Files == 1 .. MaxSaves + 1
\* the file that os.WriteFile of request r creates when the name is free
createdBy(r) == r + 1

\* what a name gives to a reader: whether a file is there, and its bytes
NoFile == [exists |-> FALSE, bytes |-> <<>>]
\* the configuration on disk before any request, as blocks of bytes
OnDisk == [i \in 1 .. 2 |-> <<"v0", i>>]

\* a POST /api/config that has not come: where its handler is, its body,
\* what config_stock.json held when it came, the second in the name of its
\* backup, whether os.Rename succeeded, the file its descriptor is open on,
\* whether f.Write and os.WriteFile returned nil, the status answered
NoSave ==
    [pc |-> "idle", body |-> "", before |-> NoFile, backup |-> 0,
     renamed |-> FALSE, fd |-> 0, wrote |-> FALSE, written |-> FALSE,
     status |-> 0]

\* config_stock.json names the file name (0: no such name), the backup
\* names by their second name no file, the bytes of the files, the clock,
\* the requests
SaveOf(name) ==
    [name |-> name, backups |-> [t \in 1 .. MaxSeconds |-> 0],
     data |-> [f \in Files |-> IF f = name THEN OnDisk ELSE <<>>],
     now |-> 1, req |-> [r \in 1 .. MaxSaves |-> NoSave]]
SaveIdle == sv = SaveOf(1)

\* the polling goroutine with the scan intervals, at time 0: where it is,
\* the instrument at hand, time.Now(), lastAnalysis, the period of the
\* ticker (0: not made yet), its next tick and the tick waiting in ticker.C,
\* when the Analyze call under way began, per instrument the calls made and
\* the instant the last one returned, the end of the initial sweep and what
\* the checks of the current tick found
TimedOf(pc, intervals) ==
    [pc |-> pc, idx |-> 1, intervals |-> intervals, now |-> 0,
     lastRun |-> [i \in DOMAIN intervals |-> 0], period |-> 0, nextTick |-> 0,
     pending |-> FALSE, began |-> 0, calls |-> [i \in DOMAIN intervals |-> 0],
     lastEnd |-> [i \in DOMAIN intervals |-> 0], sweepEnd |-> 0,
     tickLog |-> <<>>]
\* the timed polling goroutine is not followed
TickIdle == pd = TimedOf("off", <<>>)

\* instruments of the goroutines that are followed for their progress
FairStocks == 3

\* the goroutines of StartAll just started in a strategy: the capacity of
\* the semaphore and the slots held; per instrument where its call stands,
\* whether a scheduled analysis of it has run, and whether its scan interval
\* has passed since lastAnalysis; where the polling goroutine is
FairOf(mode, cap) ==
    [mode |-> mode, cap |-> cap, held |-> 0,
     pc |-> [c \in 1 .. FairStocks |->
                IF mode = "concurrent" THEN "acquire" ELSE "idle"],
     ran |-> [c \in 1 .. FairStocks |-> FALSE],
     due |-> [c \in 1 .. FairStocks |-> FALSE],
     drv |-> [pc |-> IF mode = "polling" THEN "sweep" ELSE "off", idx |-> 1]]
\* the goroutines without stamps are not followed
FairIdle == fair = FairOf("off", 0)

LateIdle == IndIdle /\ SaveIdle /\ TickIdle /\ FairIdle

\* the components that a specification does not follow are at rest
EdgeIdle == HookIdle /\ RestartIdle /\ StoreIdle /\ ConfIdle /\ LateIdle

Init == InitWith(Configs) /\ PipeIdle /\ NotifierIdle /\ EdgeIdle

InitPolling == InitWith(PollingConfigs) /\ PipeIdle /\ NotifierIdle /\ EdgeIdle

InitStop == InitWith(StopConfigs) /\ PipeIdle /\ NotifierIdle /\ EdgeIdle

(***************************************************************************)
(* Shared pieces of the actions.                                           *)
(***************************************************************************)
\* a receive from the stop channel of c can proceed
neverClosed(c) == FALSE
closed(c) == stopChans[c] >= 1

\* the deferred receive from the semaphore
release(sem) == IF sem.nil THEN sem ELSE [sem EXCEPT !.held = @ - 1]

\* m.saveAnalysisResult(code, result), under the write lock
Save(code, result) ==
    /\ analysisHistory' = [analysisHistory EXCEPT
          ![code] = saveAnalysisResult(@, result, maxHistorySize)]
    /\ inserted' = [inserted EXCEPT ![code] = Append(@, result)]

\* parseAIResponse stamps the result with time.Now(), before Analyze hands
\* it to sendNotification and returns it
Stamp(code) == [code |-> code, ts |-> clock + 1]

\* the process is gone, by os.Exit, by the return of main or by a panic:
\* its goroutines and its memory with it
Gone ==
    /\ analysisHistory' = [c \in Codes |-> <<>>]
    /\ inserted' = [c \in Codes |-> <<>>]
    /\ semaphore' = NoSemaphore
    /\ started' = FALSE
    /\ loop' = [c \in Codes |-> [pc |-> "off", res |-> NoResult]]
    /\ driver' = [pc |-> "off", list |-> <<>>, idx |-> 0, res |-> NoResult,
                 swept |-> <<>>]
    /\ trig' = NoTriggers
    /\ clock' = 0
    /\ restarting' = FALSE
    /\ signalled' = FALSE

Exit ==
    /\ exited' = TRUE
    /\ crash' = crash
    /\ stopChans' = [c \in Codes |-> 1]
    /\ Gone

\* AnalyzerManager.StopAll: close(stopChan) for every channel.  Closing a
\* closed channel panics, at whichever channel the map iteration meets
\* first, and nothing recovers the panic: the process dies
StopAll ==
    IF \E c \in Codes : closed(c)
    THEN /\ \E c \in {d \in Codes : closed(d)} :
               stopChans' = [d \in Codes |-> IF d = c THEN 2 ELSE 1]
         /\ crash' = "close of closed channel"
         /\ exited' = exited
         /\ Gone
    ELSE /\ stopChans' = [c \in Codes |-> 1]
         /\ UNCHANGED <<crash, exited, analysisHistory, semaphore, started,
                        loop, driver, trig, clock, inserted>>

(***************************************************************************)
(* StartAll.                                                               *)
(***************************************************************************)
StartAll ==
    /\ alive /\ ~started
    /\ started' = TRUE
    /\ semaphore' = IF actualMode = "concurrent" \/ actualMode = "smart"
                    THEN [cap |-> actualMaxConcurrent, held |-> 0, nil |-> FALSE]
                    ELSE semaphore
    /\ IF actualMode = "polling"
       THEN /\ driver' = [pc |-> "sweep", idx |-> 1, res |-> NoResult,
                          list |-> [i \in 1 .. stockCount |-> i],
                          swept |-> <<>>]
            /\ loop' = loop
       ELSE /\ loop' = [c \in Codes |-> [pc |-> "acquire", res |-> NoResult]]
            /\ driver' = driver
    /\ UNCHANGED <<cfgVars, notifyVars, edgeVars, pipeVars,
                   stopChans, analysisHistory, trig, clock, restarting, signalled,
                   crash, exited, inserted>>

(***************************************************************************)
(* Concurrent strategy: the goroutine of instrument c (StartAll 466-487)   *)
(* and runAnalysisWithSemaphore.                                           *)
(***************************************************************************)
\* m.semaphore <- struct{}{}, then analyzer.Analyze() begins
LoopAcquire(c) ==
    /\ alive /\ loop[c].pc = "acquire"
    /\ IF semaphore.nil
       THEN semaphore' = semaphore
       ELSE /\ semaphoreFree(semaphore)
            /\ semaphore' = [semaphore EXCEPT !.held = @ + 1]
    /\ loop' = [loop EXCEPT ![c].pc = "analyzing"]
    /\ UNCHANGED <<cfgVars, notifyVars, edgeVars, pipeVars,
                   stopChans, analysisHistory, started, driver, trig,
                   clock, restarting, signalled, crash, exited, inserted>>

\* inside Analyze: parseAIResponse builds the result and stamps it
LoopParse(c) ==
    /\ alive /\ loop[c].pc = "analyzing" /\ loop[c].res = NoResult
    /\ clock' = clock + 1
    /\ loop' = [loop EXCEPT ![c].res = Stamp(c)]
    /\ UNCHANGED <<cfgVars, notifyVars, edgeVars, pipeVars,
                   stopChans, analysisHistory, semaphore, started,
                   driver, trig, restarting, signalled, crash, exited, inserted>>

\* sendNotification is over or was not called: Analyze returns the result
LoopAnalyzeOk(c) ==
    /\ alive /\ loop[c].pc = "analyzing" /\ loop[c].res # NoResult
    /\ loop' = [loop EXCEPT ![c].pc = "saving"]
    /\ UNCHANGED <<cfgVars, notifyVars, edgeVars, pipeVars,
                   stopChans, analysisHistory, semaphore, started, driver, trig,
                   clock, restarting, signalled, crash, exited, inserted>>

\* the slot is released only after a result was saved
LoopAnalyzeErrLeaks(c) ==
    /\ alive /\ loop[c].pc = "analyzing" /\ loop[c].res = NoResult
    /\ loop' = [loop EXCEPT ![c].pc = "select"]
    /\ UNCHANGED <<cfgVars, notifyVars, edgeVars, pipeVars,
                   stopChans, analysisHistory, semaphore, started, driver, trig,
                   clock, restarting, signalled, crash, exited, inserted>>

\* Analyze returns an error, which it does before parseAIResponse has
\* built a result: nothing is saved, the slot is released
LoopAnalyzeErr(c) ==
    /\ alive /\ loop[c].pc = "analyzing" /\ loop[c].res = NoResult
    /\ loop' = [loop EXCEPT ![c].pc = "select"]
    /\ semaphore' = release(semaphore)
    /\ UNCHANGED <<cfgVars, notifyVars, edgeVars, pipeVars,
                   stopChans, analysisHistory, started, driver, trig,
                   clock, restarting, signalled, crash, exited, inserted>>

\* Analyze panics (buildAnalysisPrompt asserts the type of an indicator the
\* series was too short for): the deferred receive runs, and with no recover
\* on the goroutine the process dies
LoopAnalyzePanic(c) ==
    /\ alive /\ loop[c].pc = "analyzing" /\ loop[c].res = NoResult
    /\ crash' = "panic in Analyze"
    /\ exited' = exited
    /\ stopChans' = stopChans
    /\ Gone
    /\ UNCHANGED <<cfgVars, notifyVars, edgeVars, pipeVars>>

\* m.saveAnalysisResult(code, result): the slot is still held when the
\* mutex is released
LoopSave(c) ==
    /\ alive /\ loop[c].pc = "saving"
    /\ Save(c, loop[c].res)
    /\ loop' = [loop EXCEPT ![c] = [pc |-> "releasing", res |-> NoResult]]
    /\ UNCHANGED <<cfgVars, notifyVars, edgeVars, pipeVars,
                   stopChans, semaphore, started, driver, trig, clock,
                   restarting, signalled, crash, exited>>

\* runAnalysisWithSemaphore returns: the deferred <-m.semaphore
LoopRelease(c) ==
    /\ alive /\ loop[c].pc = "releasing"
    /\ semaphore' = release(semaphore)
    /\ loop' = [loop EXCEPT ![c].pc = "select"]
    /\ UNCHANGED <<cfgVars, notifyVars, edgeVars, pipeVars,
                   stopChans, analysisHistory, started, driver, trig,
                   clock, restarting, signalled, crash, exited, inserted>>

\* select: case <-ticker.C
LoopTick(c) ==
    /\ alive /\ loop[c].pc = "select" /\ canBegin
    /\ loop' = [loop EXCEPT ![c].pc = "acquire"]
    /\ UNCHANGED <<cfgVars, notifyVars, edgeVars, pipeVars,
                   stopChans, analysisHistory, semaphore, started,
                   driver, trig, clock, restarting, signalled, crash, exited, inserted>>

\* select: case <-stopChan
LoopStop(c) ==
    /\ alive /\ loop[c].pc = "select" /\ closed(c)
    /\ loop' = [loop EXCEPT ![c].pc = "stopped"]
    /\ UNCHANGED <<cfgVars, notifyVars, edgeVars, pipeVars,
                   stopChans, analysisHistory, semaphore, started,
                   driver, trig, clock, restarting, signalled, crash, exited, inserted>>

(***************************************************************************)
(* Polling strategy: the single goroutine of startPollingMode.             *)
(***************************************************************************)
\* append(analyzers[:i], analyzers[i+1:]...)
RemoveAt(list, i) == SubSeq(list, 1, i - 1) \o SubSeq(list, i + 1, Len(list))

current == driver.list[driver.idx]

\* initial sweep, case <-info.stopChan: the goroutine returns
DriverSweepStop ==
    /\ alive /\ driver.pc = "sweep" /\ driver.idx <= Len(driver.list)
    /\ closed(current)
    /\ driver' = [driver EXCEPT !.pc = "done"]
    /\ UNCHANGED <<cfgVars, notifyVars, edgeVars, pipeVars,
                   stopChans, analysisHistory, semaphore, started, loop,
                   trig, clock, restarting, signalled, crash, exited, inserted>>

\* initial sweep, default: Analyze begins
DriverSweepBegin ==
    /\ alive /\ driver.pc = "sweep" /\ driver.idx <= Len(driver.list)
    /\ ~closed(current) /\ canBegin
    /\ driver' = [driver EXCEPT !.pc = "sweepAnalyzing",
                                 !.swept = Append(@, current)]
    /\ UNCHANGED <<cfgVars, notifyVars, edgeVars, pipeVars,
                   stopChans, analysisHistory, semaphore, started, loop,
                   trig, clock, restarting, signalled, crash, exited, inserted>>

DriverSweepEndsEarly ==
    /\ alive /\ driver.pc = "sweep"
    /\ driver' = [driver EXCEPT !.pc = "idle", !.idx = 0]
    /\ UNCHANGED <<cfgVars, notifyVars, edgeVars, pipeVars,
                   stopChans, analysisHistory, semaphore, started, loop,
                   trig, clock, restarting, signalled, crash, exited, inserted>>

\* the sweep is over: lastAnalysis is set, the ticker is started
DriverSweepEnd ==
    /\ alive /\ driver.pc = "sweep" /\ driver.idx > Len(driver.list)
    /\ driver' = [driver EXCEPT !.pc = "idle", !.idx = 0]
    /\ UNCHANGED <<cfgVars, notifyVars, edgeVars, pipeVars,
                   stopChans, analysisHistory, semaphore, started, loop,
                   trig, clock, restarting, signalled, crash, exited, inserted>>

\* case <-ticker.C: the check of every instrument begins
DriverTick ==
    /\ alive /\ driver.pc = "idle"
    /\ driver' = [driver EXCEPT !.pc = "check", !.idx = 1]
    /\ UNCHANGED <<cfgVars, notifyVars, edgeVars, pipeVars,
                   stopChans, analysisHistory, semaphore, started, loop,
                   trig, clock, restarting, signalled, crash, exited, inserted>>

\* check, case <-info.stopChan: the instrument leaves the rotation; the
\* goroutine returns when the rotation is empty, else goto nextCheck
DriverCheckRemove ==
    /\ alive /\ driver.pc = "check" /\ driver.idx <= Len(driver.list)
    /\ closed(current)
    /\ LET rest == RemoveAt(driver.list, driver.idx)
       IN  driver' = [driver EXCEPT !.list = rest, !.idx = 0,
                         !.pc = IF Len(rest) = 0 THEN "done" ELSE "idle"]
    /\ UNCHANGED <<cfgVars, notifyVars, edgeVars, pipeVars,
                   stopChans, analysisHistory, semaphore, started, loop,
                   trig, clock, restarting, signalled, crash, exited, inserted>>

\* check, default, time.Since(lastAnalysis[code]) >= interval: Analyze begins
DriverCheckBegin ==
    /\ alive /\ driver.pc = "check" /\ driver.idx <= Len(driver.list)
    /\ ~closed(current) /\ canBegin
    /\ driver' = [driver EXCEPT !.pc = "checkAnalyzing"]
    /\ UNCHANGED <<cfgVars, notifyVars, edgeVars, pipeVars,
                   stopChans, analysisHistory, semaphore, started, loop,
                   trig, clock, restarting, signalled, crash, exited, inserted>>

\* check, default, the instrument is not due yet
DriverCheckSkip ==
    /\ alive /\ driver.pc = "check" /\ driver.idx <= Len(driver.list)
    /\ ~closed(current)
    /\ driver' = [driver EXCEPT !.idx = @ + 1]
    /\ UNCHANGED <<cfgVars, notifyVars, edgeVars, pipeVars,
                   stopChans, analysisHistory, semaphore, started, loop,
                   trig, clock, restarting, signalled, crash, exited, inserted>>

\* the range over the instruments is over: back to the select
DriverCheckEnd ==
    /\ alive /\ driver.pc = "check" /\ driver.idx > Len(driver.list)
    /\ driver' = [driver EXCEPT !.pc = "idle", !.idx = 0]
    /\ UNCHANGED <<cfgVars, notifyVars, edgeVars, pipeVars,
                   stopChans, analysisHistory, semaphore, started, loop,
                   trig, clock, restarting, signalled, crash, exited, inserted>>

\* inside Analyze: parseAIResponse builds the result and stamps it
DriverParse ==
    /\ alive /\ driver.pc \in {"sweepAnalyzing", "checkAnalyzing"}
    /\ driver.res = NoResult
    /\ clock' = clock + 1
    /\ driver' = [driver EXCEPT !.res = Stamp(current)]
    /\ UNCHANGED <<cfgVars, notifyVars, edgeVars, pipeVars,
                   stopChans, analysisHistory, semaphore, started, loop,
                   trig, restarting, signalled, crash, exited, inserted>>

\* sendNotification is over or was not called: Analyze returns the result
\* to the driver
DriverAnalyzeOk ==
    /\ alive /\ driver.pc \in {"sweepAnalyzing", "checkAnalyzing"}
    /\ driver.res # NoResult
    /\ driver' = [driver EXCEPT
                     !.pc = IF @ = "sweepAnalyzing" THEN "sweepSaving" ELSE "checkSaving"]
    /\ UNCHANGED <<cfgVars, notifyVars, edgeVars, pipeVars,
                   stopChans, analysisHistory, semaphore, started, loop,
                   trig, clock, restarting, signalled, crash, exited, inserted>>

\* Analyze returns an error to the driver, before parseAIResponse has built
\* a result: on to the next instrument
DriverAnalyzeErr ==
    /\ alive /\ driver.pc \in {"sweepAnalyzing", "checkAnalyzing"}
    /\ driver.res = NoResult
    /\ driver' = [driver EXCEPT !.idx = @ + 1,
                     !.pc = IF @ = "sweepAnalyzing" THEN "sweep" ELSE "check"]
    /\ UNCHANGED <<cfgVars, notifyVars, edgeVars, pipeVars,
                   stopChans, analysisHistory, semaphore, started, loop,
                   trig, clock, restarting, signalled, crash, exited, inserted>>

\* Analyze panics on the polling goroutine, which has no recover: the
\* process dies
DriverAnalyzePanic ==
    /\ alive /\ driver.pc \in {"sweepAnalyzing", "checkAnalyzing"}
    /\ driver.res = NoResult
    /\ crash' = "panic in Analyze"
    /\ exited' = exited
    /\ stopChans' = stopChans
    /\ Gone
    /\ UNCHANGED <<cfgVars, notifyVars, edgeVars, pipeVars>>

\* m.saveAnalysisResult(info.code, result), then the next instrument
DriverSave ==
    /\ alive /\ driver.pc \in {"sweepSaving", "checkSaving"}
    /\ Save(current, driver.res)
    /\ driver' = [driver EXCEPT !.idx = @ + 1, !.res = NoResult,
                     !.pc = IF @ = "sweepSaving" THEN "sweep" ELSE "check"]
    /\ UNCHANGED <<cfgVars, notifyVars, edgeVars, pipeVars,
                   stopChans, semaphore, started, loop, trig, clock,
                   restarting, signalled, crash, exited>>

(***************************************************************************)
(* TriggerAnalysis, on the goroutine of an HTTP request.                   *)
(***************************************************************************)
\* the analyzer exists: analyzer.Analyze() begins, outside any lock
TriggerBegin(c) ==
    /\ alive /\ started /\ trigInProgress < MaxTriggers /\ canBegin
    /\ trig' = [trig EXCEPT !.analyzing[c] = @ + 1]
    /\ UNCHANGED <<cfgVars, notifyVars, edgeVars, pipeVars,
                   stopChans, analysisHistory, semaphore, started, loop,
                   driver, clock, restarting, signalled, crash, exited, inserted>>

\* calls for c inside Analyze whose result is not built yet
trigUnparsed(c) ==
    trig.analyzing[c] - Cardinality({r \in trig.parsed : r.code = c})

\* inside Analyze, in a call for c: parseAIResponse builds the result and
\* stamps it
TriggerParse(c) ==
    /\ alive /\ trigUnparsed(c) > 0
    /\ clock' = clock + 1
    /\ trig' = [trig EXCEPT !.parsed = @ \cup {Stamp(c)}]
    /\ UNCHANGED <<cfgVars, notifyVars, edgeVars, pipeVars,
                   stopChans, analysisHistory, semaphore, started, loop,
                   driver, restarting, signalled, crash, exited, inserted>>

\* sendNotification is over or was not called: Analyze returns the result r
TriggerAnalyzeOk(r) ==
    /\ alive /\ r \in trig.parsed
    /\ trig' = [trig EXCEPT !.analyzing[r.code] = @ - 1,
                            !.parsed = @ \ {r}, !.saving = @ \cup {r}]
    /\ UNCHANGED <<cfgVars, notifyVars, edgeVars, pipeVars,
                   stopChans, analysisHistory, semaphore, started, loop,
                   driver, clock, restarting, signalled, crash, exited, inserted>>

\* Analyze returns an error (or panics, which gin's Recovery turns into a
\* 500 response), before parseAIResponse has built a result: nothing is
\* saved
TriggerAnalyzeErr(c) ==
    /\ alive /\ trigUnparsed(c) > 0
    /\ trig' = [trig EXCEPT !.analyzing[c] = @ - 1]
    /\ UNCHANGED <<cfgVars, notifyVars, edgeVars, pipeVars,
                   stopChans, analysisHistory, semaphore, started, loop,
                   driver, clock, restarting, signalled, crash, exited, inserted>>

\* m.saveAnalysisResult(code, result), then the result is returned
TriggerSave(r) ==
    /\ alive /\ r \in trig.saving
    /\ Save(r.code, r)
    /\ trig' = [trig EXCEPT !.saving = @ \ {r}]
    /\ UNCHANGED <<cfgVars, notifyVars, edgeVars, pipeVars,
                   stopChans, semaphore, started, loop, driver, clock,
                   restarting, signalled, crash, exited>>

\* analyzer, exists := m.analyzers[code]; !exists: the error is returned at
\* once, Analyze is not called and nothing is written
TriggerUnknown(code) ==
    /\ alive /\ started /\ code \notin Codes
    /\ UNCHANGED vars

(***************************************************************************)
(* Restart requests and the termination signal.                            *)
(***************************************************************************)
\* handleRestart with a valid token answers 200 and starts a goroutine that
\* sleeps 3 s and calls the restart callback, which begins with
\* analyzerManager.StopAll()
Restart ==
    /\ alive /\ started
    /\ StopAll
    /\ crash' = "none" => (restarting' = TRUE /\ signalled' = signalled)
    /\ UNCHANGED <<cfgVars, notifyVars, edgeVars, pipeVars>>

\* the restart callback: the manager script is spawned or not; os.Exit(0)
RestartExit ==
    /\ alive /\ restarting
    /\ Exit
    /\ UNCHANGED <<cfgVars, notifyVars, edgeVars, pipeVars>>

\* main: <-sigChan, then analyzerManager.StopAll(); main reads sigChan once
Signal ==
    /\ alive /\ started /\ ~signalled
    /\ StopAll
    /\ crash' = "none" => (signalled' = TRUE /\ restarting' = restarting)
    /\ UNCHANGED <<cfgVars, notifyVars, edgeVars, pipeVars>>

\* main returns after its last Println calls: the process ends
MainReturn ==
    /\ alive /\ signalled
    /\ Exit
    /\ UNCHANGED <<cfgVars, notifyVars, edgeVars, pipeVars>>

(***************************************************************************)
(* One StockAnalyzer.Analyze call, step by step.                           *)
(***************************************************************************)
\* lengths of dayKline.List the market-data service may answer with
DayLenChoices == {0, 4, 5, 13, 14, 19, 20, DayCandles - 1, DayCandles}

\* values of quote.K.Last, of quote.InsideDish + quote.OuterDisc, and of
\* len(quote.BuyLevel), len(quote.SellLevel)
QuoteChoices ==
    [prevClose : {0, 1}, dish : {0, 1}, buyLevels : {0, 5}, sellLevels : {0, 5}]

\* confidence values a parsed decision may carry
ConfidenceChoices == {0, FallbackConfidence - 1, FallbackConfidence,
                      DefaultMinConfidence - 1, DefaultMinConfidence, 100}

MinConfidenceChoices == {FallbackConfidence, DefaultMinConfidence}

Signals == {"BUY", "SELL", "HOLD"}

\* main: notif is nil unless notification.enabled, and Validate demands a
\* sink when it is enabled; EnableNotification is notification.enabled
\* PositionQuantity and BuyPrice (in cents) of the instrument: no holding,
\* or 1000 shares bought at 12.00
HoldingChoices ==
    {[quantity |-> 0, buyPrice |-> 0], [quantity |-> 1000, buyPrice |-> 1200]}
\* quote.K.Close, in cents: technical["current_price"]
QuotePrice == 1250

AnalyzerConfigs ==
    {[enable |-> e, hasNotifier |-> e, minConfidence |-> m,
      quantity |-> h.quantity, buyPrice |-> h.buyPrice] :
        e \in BOOLEAN, m \in MinConfidenceChoices, h \in HoldingChoices}

\* AnalysisConfig.IsPositionMode
IsPositionMode(config) == config.quantity > 0 /\ config.buyPrice > 0

\* stock.CalculatePositionInfo, amounts in cents; buildAnalysisPrompt calls it
\* for the prompt of an instrument in holding mode
CalculatePositionInfo(quantity, buyPrice, currentPrice) ==
    [present |-> TRUE,
     totalCost |-> buyPrice * quantity,
     marketValue |-> currentPrice * quantity,
     profitLoss |-> currentPrice * quantity - buyPrice * quantity]

\* calculateTechnicalIndicators: the keys of the map it returns
calculateTechnicalIndicators(d) ==
    {"current_price", "open_price", "high_price", "low_price", "prev_close",
     "rate", "volume", "amount"}
    \cup (IF d.prevClose > 0 THEN {"change_percent"} ELSE {})
    \cup (IF d.dish > 0 THEN {"outer_ratio"} ELSE {})
    \cup (IF d.buyLevels > 0 /\ d.sellLevels > 0 THEN {"buy_sell_ratio"} ELSE {})
    \cup (IF d.nDay >= 5 THEN {"ma5"} ELSE {})
    \cup (IF d.nDay >= 5 /\ d.nDay >= 10 THEN {"ma10"} ELSE {})
    \cup (IF d.nDay >= 5 /\ d.nDay >= 20 THEN {"ma20"} ELSE {})
    \cup (IF d.nDay >= 5 /\ d.nDay >= DayCandles THEN {"ma60"} ELSE {})
    \cup (IF d.nDay >= 14 THEN {"rsi14"} ELSE {})
    \cup (IF d.nDay >= 20 THEN {"volatility_20d"} ELSE {})

\* buildAnalysisPrompt: the keys it reads with an unchecked type assertion
\* technical[k].(T), which panics when the key is absent
PromptKeys ==
    {"current_price", "open_price", "high_price", "low_price", "prev_close",
     "change_percent", "rate", "volume", "outer_ratio", "buy_sell_ratio",
     "ma5", "ma10", "ma20", "ma60", "rsi14", "volatility_20d"}

buildAnalysisPromptPanics(tech) == ~(PromptKeys \subseteq tech)

notifyAlways(enable, result, minConfidence) == TRUE
notifyTradesOnly(enable, result, minConfidence) ==
    enable /\ result.confidence >= minConfidence /\ result.signal # "HOLD"

\* Analyze, step 9: the condition under which sendNotification is called
shouldNotify(enable, result, minConfidence) ==
    enable /\ result.confidence >= minConfidence

InitAnalyze ==
    /\ InitWith({<<"polling", 3, NumStocks>>})
    /\ aCfg \in AnalyzerConfigs
    /\ apc = "idle"
    /\ aData = NoData
    /\ technical = {}
    /\ aResult = NoDecision
    /\ sent = {}
    /\ aRet = "none"
    /\ aCalls = 0
    /\ aLog = {}
    /\ aHistory = <<>>
    /\ NotifierIdle
    /\ EdgeIdle

\* what Analyze can return as its error
ErrorReturns ==
    {"error: not trading time", "error: quote", "error: day kline",
     "error: minute30 kline", "error: llm"}

\* the call is over: its locals are gone
Return(how) ==
    /\ apc' = "returned"
    /\ aRet' = how
    /\ aData' = NoData
    /\ technical' = {}

\* a call begins
fresh ==
    /\ aCalls < MaxCalls
    /\ aCalls' = aCalls + 1
    /\ aResult' = NoDecision
    /\ sent' = {}
    /\ aLog' = {}

\* step 0: outside trading hours the call returns an error at once
AnalyzeNotTrading ==
    /\ apc = "idle"
    /\ fresh
    /\ Return("error: not trading time")
    /\ UNCHANGED <<cfgVars, notifyVars, edgeVars, schedVars, aCfg, aHistory>>

AnalyzeBegin ==
    /\ apc = "idle"
    /\ fresh
    /\ apc' = "quote"
    /\ aRet' = "none"
    /\ UNCHANGED <<cfgVars, notifyVars, edgeVars, schedVars, aCfg, aData, technical, aHistory>>

\* step 1: GetQuote
QuoteErr ==
    /\ apc = "quote"
    /\ aLog' = aLog \cup {"quote"}
    /\ Return("error: quote")
    /\ UNCHANGED <<cfgVars, notifyVars, edgeVars, schedVars, aCfg, aResult, sent, aCalls, aHistory>>

QuoteOk ==
    /\ apc = "quote"
    /\ aLog' = aLog \cup {"quote"}
    /\ \E q \in QuoteChoices :
          aData' = [aData EXCEPT !.prevClose = q.prevClose, !.dish = q.dish,
                                 !.buyLevels = q.buyLevels,
                                 !.sellLevels = q.sellLevels]
    /\ apc' = "dayKline"
    /\ UNCHANGED <<cfgVars, notifyVars, edgeVars, schedVars, aCfg, technical, aResult, sent, aRet,
                   aCalls, aHistory>>

\* step 2: GetKline(code, "day", 60)
DayKlineErr ==
    /\ apc = "dayKline"
    /\ aLog' = aLog \cup {"day kline"}
    /\ Return("error: day kline")
    /\ UNCHANGED <<cfgVars, notifyVars, edgeVars, schedVars, aCfg, aResult, sent, aCalls, aHistory>>

DayKlineOk ==
    /\ apc = "dayKline"
    /\ aLog' = aLog \cup {"day kline"}
    /\ \E n \in DayLenChoices : aData' = [aData EXCEPT !.nDay = n]
    /\ apc' = "min30"
    /\ UNCHANGED <<cfgVars, notifyVars, edgeVars, schedVars, aCfg, technical, aResult, sent, aRet,
                   aCalls, aHistory>>

\* step 3: GetKline(code, "minute30", 100)
Min30Err ==
    /\ apc = "min30"
    /\ aLog' = aLog \cup {"minute30 kline"}
    /\ Return("error: minute30 kline")
    /\ UNCHANGED <<cfgVars, notifyVars, edgeVars, schedVars, aCfg, aResult, sent, aCalls, aHistory>>

\* steps 3 to 5: the 30 minute candles arrive, GetMinute succeeds or fails
\* (its failure is only logged), calculateTechnicalIndicators runs
Indicators ==
    /\ apc = "min30"
    /\ aLog' = aLog \cup {"minute30 kline", "minute"}
    /\ technical' = calculateTechnicalIndicators(aData)
    /\ apc' = "prompt"
    /\ UNCHANGED <<cfgVars, notifyVars, edgeVars, schedVars, aCfg, aData, aResult, sent, aRet,
                   aCalls, aHistory>>

\* step 6: buildAnalysisPrompt panics on an absent key; nothing in Analyze
\* or in the scheduler recovers, and the process is gone
PromptPanic ==
    /\ apc = "prompt"
    /\ buildAnalysisPromptPanics(technical)
    /\ Return("panic")
    /\ UNCHANGED <<cfgVars, notifyVars, edgeVars, schedVars, aCfg, aResult, sent, aCalls, aLog, aHistory>>

PromptOk ==
    /\ apc = "prompt"
    /\ ~buildAnalysisPromptPanics(technical)
    /\ apc' = "llm"
    /\ UNCHANGED <<cfgVars, notifyVars, edgeVars, schedVars, aCfg, aData, technical, aResult, sent, aRet,
                   aCalls, aLog, aHistory>>

\* step 7: MCPClient.CallWithMessages
LLMErr ==
    /\ apc = "llm"
    /\ aLog' = aLog \cup {"llm"}
    /\ Return("error: llm")
    /\ UNCHANGED <<cfgVars, notifyVars, edgeVars, schedVars, aCfg, aResult, sent, aCalls, aHistory>>

\* step 8, parseAIResponse: the reply parses into a decision, which
\* ConvertToAnalysisResult turns into the result from the code, the name,
\* the current price and the indicators; PositionInfo is assigned nowhere
ParseOk ==
    /\ apc = "llm"
    /\ aLog' = aLog \cup {"llm", "llm reply"}
    /\ \E s \in Signals, k \in ConfidenceChoices :
          aResult' = [signal |-> s, confidence |-> k, fallback |-> FALSE,
                      reasoning |-> "decision", ts |-> aCalls,
                      positionInfo |-> NoPosition]
    /\ apc' = "notify"
    /\ UNCHANGED <<cfgVars, notifyVars, edgeVars, schedVars, aCfg, aData, technical, sent, aRet,
                   aCalls, aHistory>>

ParseFailureIsError ==
    /\ apc = "llm"
    /\ aLog' = aLog \cup {"llm", "llm reply"}
    /\ Return("error: parse")
    /\ UNCHANGED <<cfgVars, notifyVars, edgeVars, schedVars, aCfg, aResult, sent, aCalls, aHistory>>

\* step 8, parseAIResponse: the reply does not parse, the fallback result,
\* whose Reasoning quotes the raw reply
ParseFallback ==
    /\ apc = "llm"
    /\ aLog' = aLog \cup {"llm", "llm reply"}
    /\ aResult' = [signal |-> "HOLD", confidence |-> FallbackConfidence,
                   fallback |-> TRUE, reasoning |-> "raw reply", ts |-> aCalls,
                   positionInfo |-> NoPosition]
    /\ apc' = "notify"
    /\ UNCHANGED <<cfgVars, notifyVars, edgeVars, schedVars, aCfg, aData, technical, sent, aRet,
                   aCalls, aHistory>>

\* sendNotification: nothing without a Notifier; else SendSignal is called
\* and its error, if any, is logged
sendNotification(failed) ==
    IF aCfg.hasNotifier
    THEN /\ sent' = sent \cup {aResult}
         /\ aLog' = aLog \cup (IF failed THEN {"sink", "sink failed"} ELSE {"sink"})
    ELSE /\ sent' = sent
         /\ aLog' = aLog

\* step 9: the result is notified, and returned
Notify ==
    /\ apc = "notify"
    /\ shouldNotify(aCfg.enable, aResult, aCfg.minConfidence)
    /\ sendNotification(FALSE)
    /\ Return("result")
    /\ UNCHANGED <<cfgVars, notifyVars, edgeVars, schedVars, aCfg, aResult, aCalls, aHistory>>

NotifyFailIsError ==
    /\ apc = "notify"
    /\ shouldNotify(aCfg.enable, aResult, aCfg.minConfidence)
    /\ aCfg.hasNotifier
    /\ sendNotification(TRUE)
    /\ Return("error: notification")
    /\ UNCHANGED <<cfgVars, notifyVars, edgeVars, schedVars, aCfg, aResult, aCalls, aHistory>>

\* step 9: the delivery fails, the result is returned
NotifyFail ==
    /\ apc = "notify"
    /\ shouldNotify(aCfg.enable, aResult, aCfg.minConfidence)
    /\ aCfg.hasNotifier
    /\ sendNotification(TRUE)
    /\ Return("result")
    /\ UNCHANGED <<cfgVars, notifyVars, edgeVars, schedVars, aCfg, aResult, aCalls, aHistory>>

\* step 9: no notification, the result is returned
NoNotify ==
    /\ apc = "notify"
    /\ ~shouldNotify(aCfg.enable, aResult, aCfg.minConfidence)
    /\ Return("result")
    /\ UNCHANGED <<cfgVars, notifyVars, edgeVars, schedVars, aCfg, aResult, sent, aCalls, aLog, aHistory>>

\* the caller (runAnalysisWithSemaphore, the polling driver, TriggerAnalysis):
\* err == nil && result != nil, so saveAnalysisResult
CallerSave ==
    /\ apc = "returned" /\ aRet = "result"
    /\ aHistory' = saveAnalysisResult(aHistory, aResult, maxHistorySize)
    /\ apc' = "idle"
    /\ UNCHANGED <<cfgVars, notifyVars, edgeVars, schedVars, aCfg, aData, technical, aResult, sent, aRet,
                   aCalls, aLog>>

CallerSaveAlways ==
    /\ apc = "returned" /\ aRet \in ErrorReturns
    /\ aHistory' = saveAnalysisResult(aHistory, [aResult EXCEPT !.ts = aCalls],
                                       maxHistorySize)
    /\ apc' = "idle"
    /\ UNCHANGED <<cfgVars, notifyVars, edgeVars, schedVars, aCfg, aData, technical, aResult, sent, aRet,
                   aCalls, aLog>>

\* the caller got an error: nothing is saved
CallerSkip ==
    /\ apc = "returned" /\ aRet \in ErrorReturns
    /\ apc' = "idle"
    /\ UNCHANGED <<cfgVars, notifyVars, edgeVars, schedVars, aCfg, aData, technical, aResult, sent, aRet,
                   aCalls, aLog, aHistory>>

NextAnalyze ==
    \/ AnalyzeNotTrading \/ AnalyzeBegin
    \/ QuoteErr \/ QuoteOk
    \/ DayKlineErr \/ DayKlineOk
    \/ Min30Err \/ Indicators
    \/ PromptPanic \/ PromptOk
    \/ LLMErr \/ ParseOk \/ ParseFallback
    \/ Notify \/ NotifyFail \/ NoNotify
    \/ CallerSave \/ CallerSkip

\* one Analyze call after another on one analyzer, each with its caller
SpecAnalyze == InitAnalyze /\ [][NextAnalyze]_vars

(***************************************************************************)
(* MultiNotifier.SendSignal: one call after another on one MultiNotifier.  *)
(* multi.invoked is the sequence of sink invocations the call has made,    *)
(* each with the signal it was handed and whether it returned an error;    *)
(* multi.errors is the errors slice of the call.                           *)
(***************************************************************************)
\* NewMultiNotifier(notifiers...): any number of sinks
SinkCounts == 0 .. MaxSinks

InitNotify ==
    /\ InitWith({<<"polling", 3, NumStocks>>})
    /\ PipeIdle
    /\ \E n \in SinkCounts : multi = MultiOf(n)
    /\ EdgeIdle

\* SendSignal(signal) is called: var errors []error, the range begins
SendBegin(signal) ==
    /\ multi.pc \in {"idle", "returned"} /\ multi.calls < MaxSends
    /\ multi' = [multi EXCEPT !.pc = "range", !.signal = signal, !.idx = 1,
                    !.invoked = <<>>, !.errors = <<>>, !.ret = "none",
                    !.calls = @ + 1]
    /\ UNCHANGED <<cfgVars, schedVars, pipeVars, edgeVars>>

\* notifier.SendSignal(signal) returns nil: on to the next sink
SinkOk ==
    /\ multi.pc = "range" /\ multi.idx <= multi.n
    /\ multi' = [multi EXCEPT
          !.invoked = Append(@, [sink |-> multi.idx, signal |-> multi.signal,
                                 failed |-> FALSE]),
          !.idx = @ + 1]
    /\ UNCHANGED <<cfgVars, schedVars, pipeVars, edgeVars>>

SinkErrAborts ==
    /\ multi.pc = "range" /\ multi.idx <= multi.n
    /\ multi' = [multi EXCEPT
          !.invoked = Append(@, [sink |-> multi.idx, signal |-> multi.signal,
                                 failed |-> TRUE]),
          !.errors = Append(@, multi.idx),
          !.pc = "returned", !.ret = "error"]
    /\ UNCHANGED <<cfgVars, schedVars, pipeVars, edgeVars>>

\* notifier.SendSignal(signal) returns an error: errors = append(errors,
\* err), and on to the next sink
SinkErr ==
    /\ multi.pc = "range" /\ multi.idx <= multi.n
    /\ multi' = [multi EXCEPT
          !.invoked = Append(@, [sink |-> multi.idx, signal |-> multi.signal,
                                 failed |-> TRUE]),
          !.errors = Append(@, multi.idx),
          !.idx = @ + 1]
    /\ UNCHANGED <<cfgVars, schedVars, pipeVars, edgeVars>>

\* the range is over: an error if len(errors) > 0, else nil
SendReturn ==
    /\ multi.pc = "range" /\ multi.idx > multi.n
    /\ multi' = [multi EXCEPT !.pc = "returned",
                    !.ret = IF Len(multi.errors) > 0 THEN "error" ELSE "nil"]
    /\ UNCHANGED <<cfgVars, schedVars, pipeVars, edgeVars>>

NextNotify ==
    \/ \E signal \in Signals : SendBegin(signal)
    \/ SinkOk \/ SinkErr \/ SendReturn

SpecNotify == InitNotify /\ [][NextNotify]_vars

(***************************************************************************)
(* DingTalkNotifier.sendRequest and FeishuNotifier.sendRequest: one POST   *)
(* to the webhook and the reading of its response.  A response is its HTTP *)
(* status, whether its body can be read, what the body is (a JSON object,  *)
(* the JSON value null, or anything else: no JSON, an array, a scalar),    *)
(* and the fields errcode and code of the object: absent, a JSON number or *)
(* a JSON string.                                                          *)
(***************************************************************************)
Providers == {"dingtalk", "feishu"}
StatusChoices == {200, 204, 302, 404, 500}
CodeChoices ==
    {NoCode, [kind |-> "number", num |-> 0], [kind |-> "number", num |-> 1],
     [kind |-> "string", num |-> 1]}
\* what http.Post and the reading of the body can give
Responses ==
    {[NoResponse EXCEPT !.transport = "error"]}
    \cup {[NoResponse EXCEPT !.transport = "ok", !.status = st] : st \in StatusChoices}
    \cup {[NoResponse EXCEPT !.transport = "ok", !.status = st, !.read = TRUE] :
            st \in StatusChoices}
    \cup {[NoResponse EXCEPT !.transport = "ok", !.status = st, !.read = TRUE,
                             !.body = "null"] : st \in StatusChoices}
    \cup {[transport |-> "ok", status |-> st, read |-> TRUE, body |-> "object",
            errcode |-> e, code |-> c] :
            st \in StatusChoices, e \in CodeChoices, c \in CodeChoices}

\* json.Unmarshal(body, &result) with result a map[string]interface{}: an
\* object fills the map, null leaves it nil and is no error, anything else
\* is an error
unmarshalFails(resp) == resp.body \notin {"object", "null"}

\* the field of the response that carries the provider's code
providerCode(provider, resp) ==
    IF provider = "dingtalk" THEN resp.errcode ELSE resp.code

\* sendRequest, after json.Marshal of the message
sendRequest(provider, resp) ==
    IF resp.transport # "ok" THEN "error: request"
    ELSE IF ~resp.read THEN "error: read"
    ELSE IF unmarshalFails(resp) THEN "error: decode"
    ELSE IF providerCode(provider, resp).kind = "number"
            /\ providerCode(provider, resp).num # 0 THEN "error: api"
    ELSE "nil"

InitHook ==
    /\ InitWith({<<"polling", 3, NumStocks>>})
    /\ PipeIdle /\ NotifierIdle
    /\ EdgeIdle

\* http.Post(WebhookURL, ...) and io.ReadAll(resp.Body)
HookPost(provider, resp) ==
    /\ hook.pc = "idle"
    /\ hook' = [hook EXCEPT !.pc = "posted", !.provider = provider, !.resp = resp]
    /\ UNCHANGED <<cfgVars, schedVars, pipeVars, notifyVars, edgeButHook>>

\* the rest of sendRequest: its return value
HookReturn ==
    /\ hook.pc = "posted"
    /\ hook' = [hook EXCEPT !.pc = "returned",
                   !.ret = sendRequest(hook.provider, hook.resp)]
    /\ UNCHANGED <<cfgVars, schedVars, pipeVars, notifyVars, edgeButHook>>

\* the next send of the notifier
HookAgain ==
    /\ hook.pc = "returned"
    /\ hook' = NoHook
    /\ UNCHANGED <<cfgVars, schedVars, pipeVars, notifyVars, edgeButHook>>

NextHook ==
    \/ \E provider \in Providers, resp \in Responses : HookPost(provider, resp)
    \/ HookReturn \/ HookAgain

SpecHook == InitHook /\ [][NextHook]_vars

(***************************************************************************)
(* StockAPIServer.handleRestart and the restart callback of main, with the *)
(* scheduler reduced to StartAll, StopAll and the termination signal.      *)
(***************************************************************************)
\* cfg.APIToken after Validate: never empty
ApiToken == "good"
HeaderChoices == {"", "good", "bad"}
\* c.ShouldBindJSON(&body) succeeds or not; body["token"]
BodyChoices ==
    {[bind |-> FALSE, token |-> ""], [bind |-> TRUE, token |-> ""],
     [bind |-> TRUE, token |-> "good"], [bind |-> TRUE, token |-> "bad"]}

\* the token handleRestart checks: the header, else the body's
requestToken(header, body) ==
    IF header # "" THEN header
    ELSE IF body.bind THEN body.token ELSE ""

acceptsEveryToken(header, body, apiToken, hasRestartFunc) ==
    IF requestToken(header, body) = "" THEN 401
    ELSE IF hasRestartFunc THEN 200
    ELSE 503

\* the status handleRestart answers with
handleRestart(header, body, apiToken, hasRestartFunc) ==
    IF requestToken(header, body) = "" THEN 401
    ELSE IF apiToken # "" /\ requestToken(header, body) # apiToken THEN 403
    ELSE IF hasRestartFunc THEN 200
    ELSE 503

InitRestart ==
    /\ InitWith({<<"polling", 3, NumStocks>>})
    /\ PipeIdle /\ NotifierIdle
    /\ EdgeIdle

\* a request is answered; with 200, the goroutine that sleeps 3 s and then
\* calls s.restartFunc() is started after the answer is written
RestartRequest(header, body) ==
    /\ alive /\ Len(rst.answered) < MaxRequests
    /\ LET status == handleRestart(header, body, ApiToken, TRUE)
       IN  rst' = [rst EXCEPT
                     !.last = [header |-> header, body |-> body],
                     !.status = status,
                     !.answered = Append(@, status),
                     !.pending = IF status = 200 THEN @ + 1 ELSE @]
    /\ UNCHANGED <<cfgVars, schedVars, pipeVars, notifyVars, edgeButRst>>

\* the sleep is over: the callback runs analyzerManager.StopAll()
RestartCallback ==
    /\ alive /\ started /\ rst.pending > 0
    /\ StopAll
    /\ restarting' = (crash' = "none")
    /\ signalled' = (crash' = "none" /\ signalled)
    /\ rst' = [rst EXCEPT !.pending = @ - 1, !.invoked = @ + 1]
    /\ UNCHANGED <<cfgVars, pipeVars, notifyVars, edgeButRst>>

NextRestart ==
    \/ StartAll
    \/ \E header \in HeaderChoices, body \in BodyChoices :
          RestartRequest(header, body)
    \/ RestartCallback
    \/ RestartExit
    \/ Signal \/ MainReturn

SpecRestart == InitRestart /\ [][NextRestart]_vars

(***************************************************************************)
(* The history store in memory.  A Go slice is a window on a backing       *)
(* array: hs.arrays are the arrays allocated so far, hs.hist[c] the slice  *)
(* stored for code c.  One goroutine inserts (saveAnalysisResult) and one  *)
(* request reads (GetAnalysisHistory or GetAllRecentAnalysis) under        *)
(* m.mutex; the reader keeps the slice it was given.                       *)
(***************************************************************************)
\* timestamps of the results inserted: ties and inversions included
StampChoices == {1, 2}
ReadLimitChoices == {0, 1, 2}

\* the elements a slice shows
deref(arrays, sl) == IF sl.arr = 0 THEN <<>> ELSE SubSeq(arrays[sl.arr], 1, sl.len)

\* the stored lists by value
histValues == [c \in Codes |-> deref(hs.arrays, hs.hist[c])]

\* append([]*AnalysisResult{result}, history...): a one-element slice has no
\* room for more, so append allocates a new array
prepend(arrays, history, result) ==
    LET new == <<result>> \o deref(arrays, history)
    IN  [arrays |-> Append(arrays, new),
         slice |-> [arr |-> Len(arrays) + 1, len |-> Len(new)]]

\* m.mutex.Lock() and m.mutex.RLock() can proceed
lockAlwaysFree(mu) == TRUE
writerMayLock(mu) == ~mu.writer /\ mu.readers = 0
readerMayLock(mu) == ~mu.writer

RECURSIVE Orders(_)
\* the orders in which a range over a map can meet its keys
Orders(S) ==
    IF S = {} THEN {<<>>}
    ELSE UNION {{<<x>> \o o : o \in Orders(S \ {x})} : x \in S}

\* for _, history := range m.analysisHistory: history[0] of each non-empty
\* list, in the order the range meets them
headsOf(vals, order) ==
    LET F[i \in 0 .. Len(order)] ==
            IF i = 0 THEN <<>>
            ELSE IF vals[order[i]] = <<>> THEN F[i - 1]
            ELSE Append(F[i - 1], Head(vals[order[i]]))
    IN  F[Len(order)]

swap(a, i, j) == [a EXCEPT ![i] = a[j], ![j] = a[i]]

RECURSIVE sortFrom(_, _, _)
\* the two nested loops of GetAllRecentAnalysis, from the pair (i, j) on
sortFrom(a, i, j) ==
    IF i >= Len(a) THEN a
    ELSE IF j > Len(a) THEN sortFrom(a, i + 1, i + 2)
    ELSE sortFrom(IF a[i].ts < a[j].ts THEN swap(a, i, j) ELSE a, i, j + 1)

noSort(a) == a
sortRecent(a) == sortFrom(a, 1, 2)

\* what GetAnalysisHistory(code, limit) gives on stored lists vals
historyValue(vals, code, limit) ==
    LET lim == IF limit <= 0 THEN DefaultLimit ELSE limit
        history == IF code \in DOMAIN vals THEN vals[code] ELSE <<>>
    IN  Take(history, lim)

\* what GetAllRecentAnalysis(limit) can give on stored lists vals
recentValues(vals, limit) ==
    LET lim == IF limit <= 0 THEN RecentLimit ELSE limit
    IN  {Take(sortRecent(headsOf(vals, o)), lim) : o \in Orders(DOMAIN vals)}

\* the values a read that took place now could return
readValues(vals, rd) ==
    IF rd.kind = "history" THEN {historyValue(vals, rd.code, rd.limit)}
    ELSE recentValues(vals, rd.limit)

InitStore ==
    /\ InitWith({<<"polling", 3, NumStocks>>})
    /\ PipeIdle /\ NotifierIdle
    /\ EdgeIdle

\* a scheduler goroutine calls saveAnalysisResult(code, result)
InsertBegin(code, ts) ==
    /\ hs.ins.pc = "idle" /\ hs.ins.count < MaxInserts
    /\ hs' = [hs EXCEPT !.ins = [pc |-> "called", code |-> code,
                                  result |-> [code |-> code, ts |-> ts],
                                  local |-> NilSlice, count |-> @.count + 1]]
    /\ UNCHANGED <<cfgVars, schedVars, pipeVars, notifyVars, edgeButStore>>

\* m.mutex.Lock()
InsertLock ==
    /\ hs.ins.pc = "called" /\ writerMayLock(hs.mu)
    /\ hs' = [hs EXCEPT !.ins.pc = "locked", !.mu.writer = TRUE]
    /\ UNCHANGED <<cfgVars, schedVars, pipeVars, notifyVars, edgeButStore>>

\* history = append(...); if len(history) > m.maxHistorySize, history[:max]
InsertBuild ==
    /\ hs.ins.pc = "locked"
    /\ LET p == prepend(hs.arrays, hs.hist[hs.ins.code], hs.ins.result)
       IN  hs' = [hs EXCEPT
                    !.arrays = p.arrays,
                    !.ins.local = [p.slice EXCEPT !.len = Min(@, maxHistorySize)],
                    !.ins.pc = "built"]
    /\ UNCHANGED <<cfgVars, schedVars, pipeVars, notifyVars, edgeButStore>>

\* m.analysisHistory[code] = history
InsertStore ==
    /\ hs.ins.pc = "built"
    /\ LET hist == [hs.hist EXCEPT ![hs.ins.code] = hs.ins.local]
           vals == [c \in Codes |-> deref(hs.arrays, hist[c])]
       IN  hs' = [hs EXCEPT
                    !.hist = hist,
                    !.ins.pc = "stored",
                    !.rd.window = IF hs.rd.pc \in {"called", "locked", "loaded"}
                                  THEN @ \cup readValues(vals, hs.rd) ELSE @]
    /\ UNCHANGED <<cfgVars, schedVars, pipeVars, notifyVars, edgeButStore>>

\* the deferred m.mutex.Unlock()
InsertUnlock ==
    /\ hs.ins.pc = "stored"
    /\ hs' = [hs EXCEPT !.ins.pc = "idle", !.mu.writer = FALSE]
    /\ UNCHANGED <<cfgVars, schedVars, pipeVars, notifyVars, edgeButStore>>

\* a request calls GetAnalysisHistory(code, limit) or GetAllRecentAnalysis(limit)
ReadCall(kind, code, limit) ==
    /\ hs.rd.pc = "idle"
    /\ LET rd == [NoRead EXCEPT !.pc = "called", !.kind = kind, !.code = code,
                                 !.limit = limit]
       IN  hs' = [hs EXCEPT !.rd = [rd EXCEPT !.window = readValues(histValues, rd)]]
    /\ UNCHANGED <<cfgVars, schedVars, pipeVars, notifyVars, edgeButStore>>

\* m.mutex.RLock()
ReadRLock ==
    /\ hs.rd.pc = "called" /\ readerMayLock(hs.mu)
    /\ hs' = [hs EXCEPT !.rd.pc = "locked", !.rd.at = histValues,
                         !.mu.readers = @ + 1]
    /\ UNCHANGED <<cfgVars, schedVars, pipeVars, notifyVars, edgeButStore>>

\* GetAnalysisHistory: history := m.analysisHistory[code]; a fresh empty
\* slice for nil, else history[:limit] or history
ReadHistory ==
    /\ hs.rd.pc = "locked" /\ hs.rd.kind = "history"
    /\ LET lim == IF hs.rd.limit <= 0 THEN DefaultLimit ELSE hs.rd.limit
           history == IF hs.rd.code \in Codes THEN hs.hist[hs.rd.code] ELSE NilSlice
       IN  hs' = [hs EXCEPT !.rd.pc = "loaded",
                            !.rd.got = [history EXCEPT !.len = Min(@, lim)]]
    /\ UNCHANGED <<cfgVars, schedVars, pipeVars, notifyVars, edgeButStore>>

\* GetAllRecentAnalysis: the range meets the list of code c
ReadCollect(c) ==
    /\ hs.rd.pc = "locked" /\ hs.rd.kind = "recent" /\ c \notin hs.rd.visited
    /\ hs' = [hs EXCEPT
                 !.rd.visited = @ \cup {c},
                 !.rd.heads = IF hs.hist[c].len > 0
                              THEN Append(@, Head(deref(hs.arrays, hs.hist[c])))
                              ELSE @]
    /\ UNCHANGED <<cfgVars, schedVars, pipeVars, notifyVars, edgeButStore>>

\* GetAllRecentAnalysis: the range is over; allResults, an array of its
\* own, is sorted and cut to limit
ReadSort ==
    /\ hs.rd.pc = "locked" /\ hs.rd.kind = "recent" /\ hs.rd.visited = Codes
    /\ LET lim == IF hs.rd.limit <= 0 THEN RecentLimit ELSE hs.rd.limit
           all == sortRecent(hs.rd.heads)
       IN  hs' = [hs EXCEPT
                    !.arrays = Append(@, all),
                    !.rd.got = [arr |-> Len(hs.arrays) + 1, len |-> Min(Len(all), lim)],
                    !.rd.pc = "loaded"]
    /\ UNCHANGED <<cfgVars, schedVars, pipeVars, notifyVars, edgeButStore>>

\* the deferred m.mutex.RUnlock(); the slice is returned
ReadReturn ==
    /\ hs.rd.pc = "loaded"
    /\ hs' = [hs EXCEPT !.rd.pc = "returned", !.mu.readers = @ - 1,
                         !.rd.snapshot = deref(hs.arrays, hs.rd.got)]
    /\ UNCHANGED <<cfgVars, schedVars, pipeVars, notifyVars, edgeButStore>>

InsertStep ==
    \/ \E code \in Codes, ts \in StampChoices : InsertBegin(code, ts)
    \/ InsertLock \/ InsertBuild \/ InsertStore \/ InsertUnlock

ReadStep ==
    \/ \E code \in Codes \cup UnknownCodes, limit \in ReadLimitChoices :
          ReadCall("history", code, limit)
    \/ \E limit \in ReadLimitChoices : ReadCall("recent", 0, limit)
    \/ ReadRLock \/ ReadHistory
    \/ \E c \in Codes : ReadCollect(c)
    \/ ReadSort \/ ReadReturn

NextStore == InsertStep \/ ReadStep

SpecStore == InitStore /\ [][NextStore]_vars

(***************************************************************************)
(* config.LoadStockConfig: StockConfig.Validate on the decoded file, and   *)
(* main, which stops on its error.  The file written back with its         *)
(* defaults filled in is validated again at the next start.                *)
(***************************************************************************)
\* instruments of the file: the good one and its variations, one field or
\* one pair of fields at a time, under every code
ItemVariants ==
    {GoodItem,
     [GoodItem EXCEPT !.named = FALSE],
     [GoodItem EXCEPT !.scanIntervalMinutes = -1, !.minConfidence = -1],
     [GoodItem EXCEPT !.minConfidence = 0, !.enabled = FALSE],
     [GoodItem EXCEPT !.minConfidence = 100],
     [GoodItem EXCEPT !.minConfidence = 150],
     [GoodItem EXCEPT !.positionQuantity = 1000, !.buyPrice = 1200],
     [GoodItem EXCEPT !.positionQuantity = 1000],
     [GoodItem EXCEPT !.buyPrice = 1200],
     [GoodItem EXCEPT !.positionQuantity = -1],
     [GoodItem EXCEPT !.buyPrice = -1]}
ItemChoices ==
    {[GoodItem EXCEPT !.code = 0]}
    \cup {[i EXCEPT !.code = c] : i \in ItemVariants, c \in 1 .. MaxItems}

RECURSIVE StockLists(_)
\* the lists of n instruments
StockLists(n) ==
    IF n = 0 THEN {<<>>}
    ELSE {Append(l, i) : l \in StockLists(n - 1), i \in ItemChoices}

\* the other fields of the file: the good ones and their variations
TopVariants ==
    {GoodConfig,
     [GoodConfig EXCEPT !.tdxApiUrl = ""],
     [GoodConfig EXCEPT !.ai = "no provider"],
     [GoodConfig EXCEPT !.ai = "unknown provider"],
     [GoodConfig EXCEPT !.ai = "no key"],
     [GoodConfig EXCEPT !.apiServerPort = 0, !.logDir = ""],
     [GoodConfig EXCEPT !.analysisHistoryLimit = 0],
     [GoodConfig EXCEPT !.analysisHistoryLimit = -5],
     [GoodConfig EXCEPT !.analysisHistoryLimit = 2],
     [GoodConfig EXCEPT !.analysisHistoryLimit = 101],
     [GoodConfig EXCEPT !.analysisMode = "", !.maxConcurrentAnalysis = 0],
     [GoodConfig EXCEPT !.analysisMode = "bogus", !.maxConcurrentAnalysis = -1],
     [GoodConfig EXCEPT !.analysisMode = "smart", !.maxConcurrentAnalysis = 5],
     [GoodConfig EXCEPT !.analysisMode = "concurrent", !.maxConcurrentAnalysis = 4],
     [GoodConfig EXCEPT !.timezone = "", !.tradingHours = ""],
     [GoodConfig EXCEPT !.apiToken = ""],
     [GoodConfig EXCEPT !.notification = "off"],
     [GoodConfig EXCEPT !.notification = "no channel"],
     [GoodConfig EXCEPT !.notification = "no webhook"]}
\* the files tried: every list of instruments with the good other fields,
\* and every variation of the other fields with one instrument
ConfigFiles ==
    {[GoodConfig EXCEPT !.stocks = l] :
        l \in UNION {StockLists(n) : n \in 0 .. MaxItems}}
    \cup {[t EXCEPT !.stocks = <<i>>] :
            t \in TopVariants,
            i \in {GoodItem, [GoodItem EXCEPT !.scanIntervalMinutes = -1,
                                              !.minConfidence = -1]}}
\* os.Getenv("API_TOKEN")
EnvTokens == {"", "env"}

noDefaults(item) == item

\* StockItem.SetDefaults
SetDefaults(item) ==
    [item EXCEPT
       !.scanIntervalMinutes = IF @ <= 0 THEN 5 ELSE @,
       !.minConfidence = IF @ <= 0 THEN DefaultMinConfidence ELSE @]

\* Validate, max_concurrent_analysis
ValidateMaxConcurrent(p) ==
    IF p <= 0 THEN 3
    ELSE IF p < 1 THEN 1
    ELSE IF p > MaxConcurrentLimit THEN MaxConcurrentLimit
    ELSE p

\* Validate, analysis_mode
ValidateMode(m) ==
    IF m = "" THEN "smart"
    ELSE IF m # "smart" /\ m # "concurrent" /\ m # "polling" THEN "smart"
    ELSE m

skipStockChecks(stocks, i, stockCodes, enabledCount) ==
    [err |-> "", stocks |-> [j \in 1 .. Len(stocks) |-> SetDefaults(stocks[j])]]

RECURSIVE validateStocks(_, _, _, _)
\* Validate, the range over c.Stocks from index i on: the defaults are set in
\* place, the checks read the copy the range made.  The error, or "", and
\* the list as the loop leaves it
validateStocks(stocks, i, stockCodes, enabledCount) ==
    IF i > Len(stocks)
    THEN [err |-> IF enabledCount = 0 THEN "no stock enabled" ELSE "",
          stocks |-> stocks]
    ELSE LET stock == stocks[i]
             set == [stocks EXCEPT ![i] = SetDefaults(@)]
             failed(e) == [err |-> e, stocks |-> set]
         IN  IF stock.code = 0 THEN failed("code empty")
             ELSE IF ~stock.named THEN failed("name empty")
             ELSE IF stock.code \in stockCodes THEN failed("code duplicated")
             ELSE IF \/ stock.positionQuantity > 0 /\ stock.buyPrice <= 0
                     \/ stock.positionQuantity <= 0 /\ stock.buyPrice > 0
                  THEN failed("holding partial")
             ELSE IF stock.positionQuantity < 0 THEN failed("quantity negative")
             ELSE IF stock.buyPrice < 0 THEN failed("price negative")
             ELSE validateStocks(set, i + 1, stockCodes \cup {stock.code},
                                 enabledCount + (IF stock.enabled THEN 1 ELSE 0))

\* API_TOKEN wins over the token of the file
envTokenFirst(fileToken, env) ==
    IF env # "" THEN env
    ELSE IF fileToken # "" THEN fileToken ELSE "1122334455667788"

\* Validate: c.APIToken after the two fallbacks, the environment variable
\* API_TOKEN and the default token
resolveToken(fileToken, env) ==
    IF fileToken # "" THEN fileToken
    ELSE IF env # "" THEN env ELSE "1122334455667788"

\* StockConfig.Validate with API_TOKEN = env: the error, or "", and the
\* configuration as Validate leaves it
Validate(c, env) ==
    LET failed(e, cfg) == [err |-> e, cfg |-> cfg]
        ranged == validateStocks(c.stocks, 1, {}, 0)
        filled ==
            [c EXCEPT
               !.stocks = ranged.stocks,
               !.apiServerPort = IF @ <= 0 THEN 9090 ELSE @,
               !.logDir = IF @ = "" THEN "stock_analysis_logs" ELSE @,
               !.analysisHistoryLimit = ValidateHistoryLimit(@),
               !.analysisMode = ValidateMode(@),
               !.maxConcurrentAnalysis = ValidateMaxConcurrent(@),
               !.timezone = IF @ = "" THEN "Asia/Shanghai" ELSE @,
               !.tradingHours = IF @ = "" THEN "default" ELSE @,
               !.apiToken = resolveToken(@, env)]
    IN  IF c.tdxApiUrl = "" THEN failed("tdx_api_url empty", c)
        ELSE IF c.ai # "ok" THEN failed("ai_config: " \o c.ai, c)
        ELSE IF Len(c.stocks) = 0 THEN failed("no stock", c)
        ELSE IF ranged.err # "" THEN failed(ranged.err, [c EXCEPT !.stocks = ranged.stocks])
        ELSE IF c.notification \notin {"ok", "off"}
             THEN failed("notification: " \o c.notification, filled)
        ELSE failed("", filled)

InitConfig ==
    /\ InitWith({<<"polling", 3, NumStocks>>})
    /\ PipeIdle /\ NotifierIdle
    /\ HookIdle /\ RestartIdle /\ StoreIdle /\ LateIdle
    /\ \E c \in ConfigFiles : conf = ConfigOf(c)

\* LoadStockConfig: the file is decoded and validated
LoadStockConfig(env) ==
    /\ conf.pc = "file"
    /\ LET v == Validate(conf.in, env)
       IN  conf' = [conf EXCEPT !.pc = "loaded", !.env = env, !.err = v.err,
                                !.out = v.cfg, !.again = v.cfg]
    /\ UNCHANGED <<cfgVars, schedVars, pipeVars, notifyVars, edgeButConf>>

\* main: log.Fatalf on the error of LoadStockConfig
MainFatal ==
    /\ conf.pc = "loaded" /\ conf.err # ""
    /\ conf' = [conf EXCEPT !.pc = "fatal"]
    /\ UNCHANGED <<cfgVars, schedVars, pipeVars, notifyVars, edgeButConf>>

\* main: the AnalyzerManager is built from the configuration
MainBuild ==
    /\ conf.pc = "loaded" /\ conf.err = ""
    /\ conf' = [conf EXCEPT !.pc = "running"]
    /\ UNCHANGED <<cfgVars, schedVars, pipeVars, notifyVars, edgeButConf>>

\* the next start validates the configuration this one left
ValidateAgain(env) ==
    /\ conf.pc = "running"
    /\ LET v == Validate(conf.out, env)
       IN  conf' = [conf EXCEPT !.pc = "revalidated", !.err = v.err,
                                !.again = v.cfg]
    /\ UNCHANGED <<cfgVars, schedVars, pipeVars, notifyVars, edgeButConf>>

NextConfig ==
    \/ \E env \in EnvTokens : LoadStockConfig(env)
    \/ MainFatal \/ MainBuild
    \/ \E env \in EnvTokens : ValidateAgain(env)

SpecConfig == InitConfig /\ [][NextConfig]_vars

\* the steps of the loops that read no stop channel
LoopRun ==
    \/ \E c \in Codes : LoopAcquire(c)
    \/ \E c \in Codes : LoopParse(c)
    \/ \E c \in Codes : LoopAnalyzeOk(c)
    \/ \E c \in Codes : LoopAnalyzeErr(c)
    \/ \E c \in Codes : LoopAnalyzePanic(c)
    \/ \E c \in Codes : LoopSave(c)
    \/ \E c \in Codes : LoopRelease(c)
    \/ \E c \in Codes : LoopTick(c)

LoopStep == LoopRun \/ \E c \in Codes : LoopStop(c)

\* the steps of the polling goroutine that find no stop channel closed
DriverRun ==
    \/ DriverSweepBegin \/ DriverSweepEnd \/ DriverTick
    \/ DriverCheckBegin \/ DriverCheckSkip \/ DriverCheckEnd
    \/ DriverParse \/ DriverAnalyzeOk \/ DriverAnalyzeErr \/ DriverAnalyzePanic
    \/ DriverSave

DriverStep == DriverRun \/ DriverSweepStop \/ DriverCheckRemove

TriggerStep ==
    \/ \E c \in TriggerCodes : TriggerBegin(c)
    \/ \E c \in TriggerCodes : TriggerParse(c)
    \/ \E r \in trig.parsed : TriggerAnalyzeOk(r)
    \/ \E c \in TriggerCodes : TriggerAnalyzeErr(c)
    \/ \E r \in trig.saving : TriggerSave(r)
    \/ \E code \in UnknownCodes : TriggerUnknown(code)

LifecycleStep == Restart \/ RestartExit \/ Signal \/ MainReturn

Next == StartAll \/ LoopStep \/ DriverStep \/ TriggerStep \/ LifecycleStep

\* every strategy, with few instruments
Spec == Init /\ [][Next]_vars

NextStop == StartAll \/ LoopStep \/ DriverStep \/ LifecycleStep

NextRunning == StartAll \/ LoopRun \/ DriverRun \/ TriggerStep

\* every strategy and the TriggerAnalysis requests while no stop, restart or
\* signal is requested
SpecRunning == Init /\ [][NextRunning]_vars

\* the goroutines of StartAll and the life cycle, with no TriggerAnalysis
\* request beside them
SpecScheduled == Init /\ [][NextStop]_vars

NextPolling == StartAll \/ DriverStep \/ TriggerStep \/ LifecycleStep

\* the polling strategy, also as smart mode selects it
SpecPolling == InitPolling /\ [][NextPolling]_vars

NextSweep == StartAll \/ DriverStep \/ LifecycleStep

\* the polling driver on its own, with no TriggerAnalysis request beside it
SpecSweep == InitPolling /\ [][NextSweep]_vars

InitMode == InitWith(ModeConfigs) /\ PipeIdle /\ NotifierIdle /\ EdgeIdle

NextMode == StartAll

\* StartAll alone, over every configuration of the strategy
SpecMode == InitMode /\ [][NextMode]_vars


\* the next step of the goroutine of instrument c outside its select: the
\* send on the semaphore, the steps of Analyze, the insert of the result and
\* the deferred receive
LoopAdvance(c) ==
    \/ LoopAcquire(c)
    \/ LoopParse(c) \/ LoopAnalyzeOk(c) \/ LoopAnalyzeErr(c) \/ LoopAnalyzePanic(c)
    \/ LoopSave(c)
    \/ LoopRelease(c)

\* what the Go scheduler and the runtime guarantee to the goroutines of
\* StartAll: a goroutine that can take its next step takes it (a send on
\* the semaphore proceeds when a slot is free, a call of Analyze returns,
\* which is the proviso of the stop guarantee, a result in hand is saved,
\* the deferred receive from the semaphore runs), a select whose stop case
\* is ready again and again takes it in the end (select picks among ready
\* cases at random), and the polling goroutine, whose ticker keeps firing,
\* takes its next step
FairScheduling ==
    /\ \A c \in 1 .. NumStocks :
          /\ WF_vars(c \in Codes /\ LoopAdvance(c))
          /\ SF_vars(c \in Codes /\ LoopStop(c))
    /\ WF_vars(DriverStep)

\* the scheduler and the process life cycle, with fair goroutines; nothing
\* forces a restart, a signal or the exit of the process
SpecStop == InitStop /\ [][NextStop]_vars /\ FairScheduling

(***************************************************************************)
(* float64 arithmetic as the build computes it in calculateRSI and in      *)
(* fmt.Sprintf("%.2f"): IEEE 754 binary64, round to nearest, ties to even. *)
(* A natural number that does not fit an integer of the model is a         *)
(* sequence of limbs in base LimbBase, least significant first, with no    *)
(* leading zero limb (0 is <<>>).  A float64 is m * 2^e with m such a      *)
(* number of at most MantissaBits bits; the values of calculateRSI are     *)
(* never negative, subnormal or infinite.                                  *)
(***************************************************************************)
LimbBits == 15
LimbBase == 2 ^ LimbBits
MantissaBits == 53

\* w, with v evaluated first
after(v, w) == IF v = v THEN w ELSE w

RECURSIVE bnNorm(_)
bnNorm(a) ==
    IF a # <<>> /\ a[Len(a)] = 0 THEN bnNorm(SubSeq(a, 1, Len(a) - 1)) ELSE a

\* the limbs of an integer of the model
bnOfInt(n) ==
    bnNorm(<<n % LimbBase, (n \div LimbBase) % LimbBase,
             n \div (LimbBase * LimbBase)>>)

limb(a, i) == IF 1 <= i /\ i <= Len(a) THEN a[i] ELSE 0

\* the integer of at most two limbs
bnToInt(a) == limb(a, 1) + LimbBase * limb(a, 2)

\* -1, 0 or 1 as a is less than, equal to or greater than b
RECURSIVE bnCmpFrom(_, _, _)
bnCmpFrom(a, b, i) ==
    IF i = 0 THEN 0
    ELSE IF a[i] < b[i] THEN 0 - 1
    ELSE IF a[i] > b[i] THEN 1
    ELSE bnCmpFrom(a, b, i - 1)
bnCmp(a, b) ==
    IF Len(a) < Len(b) THEN 0 - 1
    ELSE IF Len(a) > Len(b) THEN 1
    ELSE bnCmpFrom(a, b, Len(a))

\* a + b + carry from limb i on
RECURSIVE bnAddFrom(_, _, _, _)
bnAddFrom(a, b, i, carry) ==
    IF i > Len(a) /\ i > Len(b)
    THEN IF carry = 0 THEN <<>> ELSE <<carry>>
    ELSE LET s == limb(a, i) + limb(b, i) + carry
         IN <<s % LimbBase>> \o bnAddFrom(a, b, i + 1, s \div LimbBase)

\* a - b - borrow from limb i on, for a >= b
RECURSIVE bnSubFrom(_, _, _, _)
bnSubFrom(a, b, i, borrow) ==
    IF i > Len(a) THEN <<>>
    ELSE LET s == a[i] - limb(b, i) - borrow
         IN <<s % LimbBase>> \o bnSubFrom(a, b, i + 1, IF s < 0 THEN 1 ELSE 0)

\* a * k + carry from limb i on, for 0 <= k < LimbBase
RECURSIVE bnMulFrom(_, _, _, _)
bnMulFrom(a, k, i, carry) ==
    IF i > Len(a) THEN IF carry = 0 THEN <<>> ELSE <<carry>>
    ELSE LET s == a[i] * k + carry
         IN <<s % LimbBase>> \o bnMulFrom(a, k, i + 1, s \div LimbBase)

\* a * 2^k
bnShl(a, k) ==
    LET low == 2 ^ (LimbBits - (k % LimbBits))
        high == 2 ^ (k % LimbBits)
    IN bnNorm([i \in 1 .. Len(a) + k \div LimbBits + 1 |->
                 (limb(a, i - k \div LimbBits) % low) * high
                 + limb(a, i - k \div LimbBits - 1) \div low])

\* a / 2^k, rounded down
bnShr(a, k) ==
    LET low == 2 ^ (k % LimbBits)
        high == 2 ^ (LimbBits - (k % LimbBits))
    IN bnNorm([i \in 1 .. Len(a) - k \div LimbBits |->
                 limb(a, i + k \div LimbBits) \div low
                 + (limb(a, i + k \div LimbBits + 1) % low) * high])

\* the number of bits of a
RECURSIVE bitsOf(_)
bitsOf(n) == IF n = 0 THEN 0 ELSE 1 + bitsOf(n \div 2)
bnBitLen(a) ==
    IF a = <<>> THEN 0 ELSE LimbBits * (Len(a) - 1) + bitsOf(a[Len(a)])

\* q or q + 1: q rounded on what the division left, which compares with
\* half the divisor as cmp says; a tie goes to the even one
roundHalfEven(q, cmp) ==
    IF cmp > 0 \/ (cmp = 0 /\ limb(q, 1) % 2 = 1)
    THEN bnAddFrom(q, <<1>>, 1, 0) ELSE q

\* n / 2^k rounded to the nearest integer, ties to even
roundShift(n, k) ==
    IF k <= 0 THEN bnShl(n, 0 - k)
    ELSE LET q == bnShr(n, k)
             cmp == bnCmp(bnShl(bnNorm(bnSubFrom(n, bnShl(q, k), 1, 0)), 1),
                          bnShl(<<1>>, k))
         IN after(q, after(cmp, roundHalfEven(q, cmp)))

\* the next limb of a quotient: the k with d * k <= r < d * (k + 1), for
\* r < d * LimbBase and a divisor d whose top limb is at least LimbBase / 2,
\* so that the quotient of the top limbs is k, k + 1 or k + 2
quotientLimb(r, d) ==
    LET top == limb(r, Len(d) + 1) * LimbBase + limb(r, Len(d))
        guess == IF top \div d[Len(d)] < LimbBase
                 THEN top \div d[Len(d)] ELSE LimbBase - 1
        fits(k) == bnCmp(bnNorm(bnMulFrom(d, k, 1, 0)), r) <= 0
    IN IF fits(guess) THEN guess
       ELSE IF fits(guess - 1) THEN guess - 1 ELSE guess - 2

\* <<quotient, remainder>> of n by d, long division limb by limb from limb
\* i of n down, with quotient q and remainder r so far
RECURSIVE bnDivFrom(_, _, _, _, _)
bnDivFrom(n, d, i, q, r) ==
    IF i = 0 THEN <<bnNorm(q), r>>
    ELSE LET r2 == bnNorm(<<n[i]>> \o r)
             k == quotientLimb(r2, d)
             r3 == bnNorm(bnSubFrom(r2, bnNorm(bnMulFrom(d, k, 1, 0)), 1, 0))
         IN after(r2, after(k, after(r3,
               bnDivFrom(n, d, i - 1, <<k>> \o q, r3))))

\* n / d rounded to the nearest integer, ties to even, for d > 0: n and d
\* are first scaled by the power of 2 that fills the top limb of d, and the
\* limbs of n above the length of d start as the remainder
bnDivRound(n, d) ==
    LET fill == LimbBits - bitsOf(d[Len(d)])
        den == bnShl(d, fill)
        num == bnShl(n, fill)
        from == IF Len(num) >= Len(den) THEN Len(num) - Len(den) + 1 ELSE 0
        qr == bnDivFrom(num, den, from, <<>>, SubSeq(num, from + 1, Len(num)))
        cmp == bnCmp(bnShl(qr[2], 1), den)
    IN after(den, after(num, after(qr, after(cmp,
          roundHalfEven(qr[1], cmp)))))

\* the float64 of mantissa m, which a rounding may have carried into one
\* bit more, and exponent e
floatOf(m, e) ==
    IF bnBitLen(m) > MantissaBits THEN [m |-> bnShr(m, 1), e |-> e + 1]
    ELSE [m |-> m, e |-> e]

floatOfInt(k) == [m |-> bnOfInt(k), e |-> 0]

\* the float64 nearest to n * 2^e, ties to even
floatRound(n, e) ==
    LET drop == IF bnBitLen(n) > MantissaBits
                THEN bnBitLen(n) - MantissaBits ELSE 0
        mant == roundShift(n, drop)
    IN after(mant, floatOf(mant, e + drop))

\* x / y for y > 0: x.m / y.m is scaled by the power of 2 that
\* gives its quotient MantissaBits bits, and the quotient is rounded on the
\* remainder
floatDiv(x, y) ==
    LET first == MantissaBits - (bnBitLen(x.m) - bnBitLen(y.m))
        tooLong == bnCmp(bnShl(x.m, IF first > 0 THEN first ELSE 0),
                         bnShl(y.m, MantissaBits
                                    - (IF first < 0 THEN first ELSE 0))) >= 0
        shift == IF tooLong THEN first - 1 ELSE first
        mant == bnDivRound(bnShl(x.m, IF shift > 0 THEN shift ELSE 0),
                           bnShl(y.m, IF shift < 0 THEN 0 - shift ELSE 0))
    IN after(<<x, y>>, after(shift, after(mant,
          floatOf(mant, x.e - y.e - shift))))

\* x + y, and x - y for x >= y
floatSum(x, y, sign) ==
    LET lo == IF x.e < y.e THEN x.e ELSE y.e
        xm == bnShl(x.m, x.e - lo)
        ym == bnShl(y.m, y.e - lo)
        total == IF sign > 0 THEN bnAddFrom(xm, ym, 1, 0)
                 ELSE bnNorm(bnSubFrom(xm, ym, 1, 0))
    IN after(<<x, y>>, after(total, floatRound(total, lo)))

\* fmt.Sprintf("%.2f", x) as the number of hundredths it prints: the exact
\* value of x times 100, rounded to the nearest integer, ties to even
formatHundredths(x) ==
    after(x, bnToInt(roundShift(bnNorm(bnMulFrom(x.m, 100, 1, 0)), 0 - x.e)))

(***************************************************************************)
(* calculateTechnicalIndicators on the daily candles: the moving averages, *)
(* calculateRSI and calculateVolatility by value.  Closes are integers     *)
(* (the unit of KlineItem.Close); index i of the Go slice is i + 1 here.   *)
(***************************************************************************)
\* candles a series may hold beyond the DayCandles that Analyze asks for
ExtraCandles == 1

\* closes of a series; 0 is the close that calculateVolatility guards
CloseChoices == {0, 10, 20}

SeriesLengths ==
    {0, 4, 5, 9, 10, 13, 14, 15, 19, 20, 21, DayCandles - 1}
    \cup (DayCandles .. DayCandles + ExtraCandles)

\* n closes, oldest first: all a; a and b in turn; a with a last b; a first
\* b followed by a
SeriesShapes == {"flat", "alternate", "lastMoves", "firstMoves"}
Series(n, a, b, shape) ==
    [i \in 1 .. n |->
        CASE shape = "flat" -> a
          [] shape = "alternate" -> IF i % 2 = 1 THEN a ELSE b
          [] shape = "lastMoves" -> IF i = n THEN b ELSE a
          [] shape = "firstMoves" -> IF i = 1 THEN b ELSE a]

\* n closes: a, then b, then c to the end
spike(n, a, b, c) ==
    [i \in 1 .. n |-> IF i = 1 THEN a ELSE IF i = 2 THEN b ELSE c]

\* series of unequal gains and losses: an RSI of 33.33..., and three half
\* way between two hundredths: 3.125, which float64 holds; 5.625 and 41.875,
\* which the float64 operations miss by one bit
UnevenSeries ==
    {spike(15, 100, 110, 90), spike(15, 100, 101, 70),
     spike(15, 200, 209, 58), spike(15, 100, 167, 74)}

CandleSeries ==
    {Series(n, a, b, sh) : n \in SeriesLengths, a \in CloseChoices,
                           b \in CloseChoices, sh \in SeriesShapes}
    \cup UnevenSeries

RECURSIVE sumRange(_, _, _)
sumRange(f, lo, hi) == IF lo > hi THEN 0 ELSE f[lo] + sumRange(f, lo + 1, hi)

RECURSIVE gcd(_, _)
gcd(a, b) == IF b = 0 THEN a ELSE gcd(b, a % b)

\* the least common multiple of the closes closes[lo..hi] that are not 0
RECURSIVE scaleOf(_, _, _)
scaleOf(closes, lo, hi) ==
    IF lo > hi THEN 1
    ELSE LET r == scaleOf(closes, lo + 1, hi)
         IN IF closes[lo] = 0 THEN r ELSE (r * closes[lo]) \div gcd(r, closes[lo])

\* sumN / N over the last n closes, in integers as the code divides
movingAverage(closes, n) ==
    sumRange(closes, Len(closes) - n + 1, Len(closes)) \div n

\* calculateRSI: gains and losses are sums of whole closes, which float64
\* holds exactly; the divisions, the sum and the difference round
calculateRSI(closes, period) ==
    IF Len(closes) < period + 1 THEN floatOfInt(50)
    ELSE LET n == Len(closes)
             change == [j \in n - period + 1 .. n |->
                           IF j > 1 THEN closes[j] - closes[j - 1] ELSE 0]
             gains == sumRange([j \in DOMAIN change |->
                                  IF change[j] > 0 THEN change[j] ELSE 0],
                               n - period + 1, n)
             losses == sumRange([j \in DOMAIN change |->
                                   IF change[j] > 0 THEN 0 ELSE 0 - change[j]],
                                n - period + 1, n)
             avgGain == floatDiv(floatOfInt(gains), floatOfInt(period))
             avgLoss == floatDiv(floatOfInt(losses), floatOfInt(period))
             rs == floatDiv(avgGain, avgLoss)
             onePlus == floatSum(floatOfInt(1), rs, 1)
             ratio == floatDiv(floatOfInt(100), onePlus)
         IN IF losses = 0 THEN floatOfInt(100)
            ELSE after(avgGain, after(avgLoss, after(rs, after(onePlus,
                 after(ratio, floatSum(floatOfInt(100), ratio, 0 - 1))))))

\* calculateVolatility: the variance of the last period returns as the
\* fraction <<numerator, denominator>>, the returns taken over the common
\* denominator d of the window; the value returned is its square root, which
\* is 0 exactly when the numerator is
calculateVolatility(closes, period) ==
    IF Len(closes) < period + 1 THEN <<0, 1>>
    ELSE LET n == Len(closes)
             d == scaleOf(closes, n - period, n - 1)
             returns == [j \in n - period + 1 .. n |->
                            IF closes[j - 1] # 0
                            THEN (closes[j] - closes[j - 1]) * (d \div closes[j - 1])
                            ELSE 0]
             total == sumRange(returns, n - period + 1, n)
             squares == [j \in DOMAIN returns |->
                            (period * returns[j] - total)
                            * (period * returns[j] - total)]
         IN <<sumRange(squares, n - period + 1, n),
              period * period * period * d * d>>

\* the fields of the snapshot that the daily candles decide
DayKeys == {"ma5", "ma10", "ma20", "ma60", "rsi14", "volatility_20d"}

\* calculateTechnicalIndicators, the part on dayKline.List: the keys it sets
\* and their values
dayIndicators(closes) ==
    LET keys == calculateTechnicalIndicators([NoData EXCEPT !.nDay = Len(closes)])
                    \cap DayKeys
    IN [keys |-> keys,
        ma5 |-> IF "ma5" \in keys THEN movingAverage(closes, 5) ELSE 0,
        ma10 |-> IF "ma10" \in keys THEN movingAverage(closes, 10) ELSE 0,
        ma20 |-> IF "ma20" \in keys THEN movingAverage(closes, 20) ELSE 0,
        ma60 |-> IF "ma60" \in keys THEN movingAverage(closes, DayCandles) ELSE 0,
        rsi14 |-> IF "rsi14" \in keys
                  THEN formatHundredths(calculateRSI(closes, 14)) ELSE 0,
        variance |-> IF "volatility_20d" \in keys
                     THEN calculateVolatility(closes, 20) ELSE <<0, 1>>]

InitIndicators ==
    /\ InitWith({<<"polling", 3, NumStocks>>})
    /\ PipeIdle /\ NotifierIdle
    /\ HookIdle /\ RestartIdle /\ StoreIdle /\ ConfIdle
    /\ SaveIdle /\ TickIdle /\ FairIdle
    /\ \E closes \in CandleSeries :
          ind = [pc |-> "series", closes |-> closes, out |-> NoSnapshot]

\* the market-data service answers GetKline with another series
IndicatorsSeries(closes) ==
    /\ ind.pc = "done"
    /\ ind' = [pc |-> "series", closes |-> closes, out |-> NoSnapshot]
    /\ UNCHANGED <<cfgVars, schedVars, pipeVars, notifyVars, edgeButInd>>

\* calculateTechnicalIndicators runs on the series
IndicatorsCompute ==
    /\ ind.pc = "series"
    /\ ind' = [ind EXCEPT !.pc = "done", !.out = dayIndicators(ind.closes)]
    /\ UNCHANGED <<cfgVars, schedVars, pipeVars, notifyVars, edgeButInd>>

NextIndicators ==
    \/ \E closes \in CandleSeries : IndicatorsSeries(closes)
    \/ IndicatorsCompute

\* the indicator snapshot of one series after another
SpecIndicators == InitIndicators /\ [][NextIndicators]_vars

(***************************************************************************)
(* StockAPIServer.handleSaveConfig: POST /api/config.  The handler takes   *)
(* no lock: the requests of MaxSaves clients run side by side, one system  *)
(* call of one request at a time.  os.WriteFile is three of them: OpenFile *)
(* with truncation, Write and Close.  A name of the directory leads to a   *)
(* file, and a descriptor stays on the file it was opened on when the name *)
(* is renamed.  The bytes of a file are blocks <<body, i>>: block i of the *)
(* output marshalled from that body.  json.MarshalIndent cannot fail on a  *)
(* map that ShouldBindJSON decoded.                                        *)
(***************************************************************************)
\* bodies of a request: one that does not decode into a map (no JSON, or an
\* array, a string, a number), the JSON null, and two configurations
SaveBodies == {"undecodable", "null", "v1", "v2"}

\* c.ShouldBindJSON(&config) on a map: null decodes, into the nil map
bindFails(body) == body = "undecodable"

\* os.Rename: done, or failed with the file left as it was (no such file,
\* permission, ...) 
RenameOutcomes == {"ok", "failed"}

\* json.MarshalIndent(config, "", "  "): the bytes to write, in blocks.  The
\* nil map of the body null gives the shortest output, and v1 is a longer
\* configuration than v2
MarshalIndent(body) ==
    LET n == CASE body = "null" -> 1 [] body = "v2" -> 2 [] OTHER -> 3
    IN [i \in 1 .. n |-> <<body, i>>]

\* the three calls of os.WriteFile.  OpenFile with O_CREATE|O_TRUNC: done, or
\* failed with the directory untouched; f.Write: done, or failed after a
\* part of the bytes; f.Close: done, or failed
OpenOutcomes == {"ok", "failed"}
WriteOutcomes == {"ok", "failed"}
CloseOutcomes == {"ok", "failed"}

\* what config_stock.json gives to a reader
configFile ==
    IF sv.name = 0 THEN NoFile ELSE [exists |-> TRUE, bytes |-> sv.data[sv.name]]

\* a write at offset 0 over the bytes a file holds: what lies beyond the
\* bytes written stays
writeAt(old, bytes) == bytes \o SubSeq(old, Len(bytes) + 1, Len(old))

InitSave ==
    /\ InitWith({<<"polling", 3, NumStocks>>})
    /\ PipeIdle /\ NotifierIdle
    /\ HookIdle /\ RestartIdle /\ StoreIdle /\ ConfIdle
    /\ IndIdle /\ TickIdle /\ FairIdle
    /\ \E name \in {0, 1} : sv = SaveOf(name)

\* a second passes
SaveSecond ==
    /\ sv.now < MaxSeconds
    /\ sv' = [sv EXCEPT !.now = @ + 1]
    /\ UNCHANGED <<cfgVars, schedVars, pipeVars, notifyVars, edgeButSave>>

\* c.ShouldBindJSON(&config): 400 for a body that does not decode; else
\* the name of the backup is made from time.Now()
SaveBind(r, body) ==
    /\ sv.req[r].pc = "idle"
    /\ sv' = [sv EXCEPT !.req[r] =
          IF bindFails(body)
          THEN [NoSave EXCEPT !.pc = "answered", !.body = body,
                              !.before = configFile, !.status = 400]
          ELSE [NoSave EXCEPT !.pc = "bound", !.body = body,
                              !.before = configFile, !.backup = sv.now]]
    /\ UNCHANGED <<cfgVars, schedVars, pipeVars, notifyVars, edgeButSave>>

\* os.Rename(configFile, backupFile), which replaces a backup of that name
\* and leaves open descriptors on the file they were opened on: its failure
\* is logged and the handler goes on
SaveRename(r, outcome) ==
    /\ sv.req[r].pc = "bound"
    /\ sv.name = 0 => outcome = "failed"
    /\ sv' = IF outcome = "ok"
             THEN [sv EXCEPT !.req[r].pc = "backed", !.req[r].renamed = TRUE,
                             !.name = 0,
                             !.backups[sv.req[r].backup] = sv.name]
             ELSE [sv EXCEPT !.req[r].pc = "backed"]
    /\ UNCHANGED <<cfgVars, schedVars, pipeVars, notifyVars, edgeButSave>>

\* the status handleSaveConfig answers after os.WriteFile
saveStatus(renamed, written) == IF written THEN 200 ELSE 500

\* os.WriteFile, first call: OpenFile(name, O_WRONLY|O_CREATE|O_TRUNC, perm)
\* empties the file of that name, or creates one; when it fails
\* os.WriteFile returns the error and 500 is answered
SaveOpen(r, outcome) ==
    /\ sv.req[r].pc = "backed"
    /\ sv' = IF outcome = "ok"
             THEN LET f == IF sv.name = 0 THEN createdBy(r) ELSE sv.name
                  IN [sv EXCEPT !.req[r].pc = "opened", !.req[r].fd = f,
                                !.name = f, !.data[f] = <<>>]
             ELSE [sv EXCEPT !.req[r].pc = "answered",
                             !.req[r].status = saveStatus(sv.req[r].renamed, FALSE)]
    /\ UNCHANGED <<cfgVars, schedVars, pipeVars, notifyVars, edgeButSave>>

\* os.WriteFile, second call: f.Write(data) at offset 0 of the file the
\* descriptor is open on, whatever other descriptors have written there;
\* a failed write leaves the first k bytes
SaveWrite(r, outcome, k) ==
    /\ sv.req[r].pc = "opened"
    /\ LET f == sv.req[r].fd
           bytes == MarshalIndent(sv.req[r].body)
       IN /\ k \in 0 .. Len(bytes)
          /\ outcome = "ok" <=> k = Len(bytes)
          /\ sv' = [sv EXCEPT !.req[r].pc = "wrote",
                              !.req[r].wrote = (outcome = "ok"),
                              !.data[f] = writeAt(@, SubSeq(bytes, 1, k))]
    /\ UNCHANGED <<cfgVars, schedVars, pipeVars, notifyVars, edgeButSave>>

\* os.WriteFile, third call: f.Close(), whose error is returned when the
\* write had none; then the answer
SaveClose(r, outcome) ==
    /\ sv.req[r].pc = "wrote"
    /\ LET written == sv.req[r].wrote /\ outcome = "ok"
       IN sv' = [sv EXCEPT !.req[r].pc = "answered",
                           !.req[r].written = written,
                           !.req[r].status = saveStatus(sv.req[r].renamed, written)]
    /\ UNCHANGED <<cfgVars, schedVars, pipeVars, notifyVars, edgeButSave>>

\* the numbers of blocks a write can leave
WriteCounts == 0 .. Len(MarshalIndent("v1"))

NextSave ==
    \/ SaveSecond
    \/ \E r \in 1 .. MaxSaves, body \in SaveBodies : SaveBind(r, body)
    \/ \E r \in 1 .. MaxSaves, outcome \in RenameOutcomes : SaveRename(r, outcome)
    \/ \E r \in 1 .. MaxSaves, outcome \in OpenOutcomes : SaveOpen(r, outcome)
    \/ \E r \in 1 .. MaxSaves, outcome \in WriteOutcomes, k \in WriteCounts :
            SaveWrite(r, outcome, k)
    \/ \E r \in 1 .. MaxSaves, outcome \in CloseOutcomes : SaveClose(r, outcome)

\* the POST /api/config requests of MaxSaves clients
SpecSave == InitSave /\ [][NextSave]_vars

(***************************************************************************)
(* startPollingMode with wall-clock time, no stop being requested.  The    *)
(* unit of time is a minute / TickDivisor, so that scan intervals of whole *)
(* minutes and the period of the ticker are whole numbers of units.        *)
(***************************************************************************)
\* instruments of the timed polling goroutine
TimedStocks == 2
\* the time followed, in units
MaxTime == 8

\* minInterval / 4
TickDivisor == 4
\* minInterval := time.Minute * 5
DefaultMinMinutes == 5

\* scan_interval_minutes of an instrument: positive after SetDefaults
IntervalMinutes == {1, 2, DefaultMinMinutes + 1}

\* StockItem.GetScanInterval, in units
GetScanInterval(minutes) == minutes * TickDivisor

IntervalLists ==
    [1 .. TimedStocks -> {GetScanInterval(m) : m \in IntervalMinutes}]

\* the loop over analyzers that lowers minInterval from its start value
RECURSIVE minIntervalFrom(_, _, _)
minIntervalFrom(intervals, i, minInterval) ==
    IF i > Len(intervals) THEN minInterval
    ELSE minIntervalFrom(intervals, i + 1,
                         IF intervals[i] < minInterval THEN intervals[i]
                         ELSE minInterval)

\* the period of time.NewTicker(minInterval / 4)
tickEvery(intervals) ==
    minIntervalFrom(intervals, 1, GetScanInterval(DefaultMinMinutes)) \div TickDivisor

\* the analysis is due only after more than the interval
isDueLater(now, last, interval) == now - last > interval

\* time.Since(lastAnalysis[info.code]) >= info.interval
isDue(now, last, interval) == now - last >= interval

InitTick ==
    /\ InitWith({<<"polling", 3, NumStocks>>})
    /\ PipeIdle /\ NotifierIdle
    /\ HookIdle /\ RestartIdle /\ StoreIdle /\ ConfIdle
    /\ IndIdle /\ SaveIdle /\ FairIdle
    /\ \E intervals \in IntervalLists : pd = TimedOf("sweep", intervals)

\* time passes; the ticker fires at its instant, before time goes on
TimedElapse ==
    /\ pd.pc # "off" /\ pd.now < MaxTime
    /\ pd.period = 0 \/ pd.now < pd.nextTick
    /\ pd' = [pd EXCEPT !.now = @ + 1]
    /\ UNCHANGED <<cfgVars, schedVars, pipeVars, notifyVars, edgeButTick>>

\* initial sweep: Analyze is called for the next instrument
TimedSweepBegin ==
    /\ pd.pc = "sweep" /\ pd.idx <= Len(pd.intervals)
    /\ pd' = [pd EXCEPT !.pc = "sweepAnalyzing", !.began = pd.now]
    /\ UNCHANGED <<cfgVars, schedVars, pipeVars, notifyVars, edgeButTick>>

\* initial sweep: the call returns
TimedSweepEnd ==
    /\ pd.pc = "sweepAnalyzing"
    /\ pd' = [pd EXCEPT !.pc = "sweep", !.idx = @ + 1,
                        !.calls[pd.idx] = @ + 1, !.lastEnd[pd.idx] = pd.now,
                        !.began = 0]
    /\ UNCHANGED <<cfgVars, schedVars, pipeVars, notifyVars, edgeButTick>>

\* after the sweep: lastAnalysis[code] = time.Now() for every instrument,
\* minInterval, and the ticker
TimedSweepDone ==
    /\ pd.pc = "sweep" /\ pd.idx > Len(pd.intervals)
    /\ pd' = [pd EXCEPT !.pc = "wait",
                        !.lastRun = [i \in DOMAIN pd.intervals |-> pd.now],
                        !.sweepEnd = pd.now,
                        !.period = tickEvery(pd.intervals),
                        !.nextTick = pd.now + tickEvery(pd.intervals)]
    /\ UNCHANGED <<cfgVars, schedVars, pipeVars, notifyVars, edgeButTick>>

\* the ticker fires: the tick waits in ticker.C, or is dropped when one
\* waits there already
TimedTickFire ==
    /\ pd.period > 0 /\ pd.now >= pd.nextTick
    /\ pd' = [pd EXCEPT !.pending = TRUE, !.nextTick = @ + pd.period]
    /\ UNCHANGED <<cfgVars, schedVars, pipeVars, notifyVars, edgeButTick>>

\* case <-ticker.C: the loop over the instruments begins
TimedTickReceive ==
    /\ pd.pc = "wait" /\ pd.pending
    /\ pd' = [pd EXCEPT !.pc = "check", !.idx = 1, !.pending = FALSE,
                        !.tickLog = <<>>]
    /\ UNCHANGED <<cfgVars, schedVars, pipeVars, notifyVars, edgeButTick>>

\* the instrument is due: Analyze is called
TimedCheckBegin ==
    /\ pd.pc = "check" /\ pd.idx <= Len(pd.intervals)
    /\ isDue(pd.now, pd.lastRun[pd.idx], pd.intervals[pd.idx])
    /\ pd' = [pd EXCEPT
          !.pc = "checkAnalyzing", !.began = pd.now,
          !.tickLog = Append(@, [code |-> pd.idx, at |-> pd.now,
                                 last |-> pd.lastRun[pd.idx], ran |-> TRUE])]
    /\ UNCHANGED <<cfgVars, schedVars, pipeVars, notifyVars, edgeButTick>>

\* the instrument is not due: the loop goes on to the next one
TimedCheckSkip ==
    /\ pd.pc = "check" /\ pd.idx <= Len(pd.intervals)
    /\ ~isDue(pd.now, pd.lastRun[pd.idx], pd.intervals[pd.idx])
    /\ pd' = [pd EXCEPT
          !.idx = @ + 1,
          !.tickLog = Append(@, [code |-> pd.idx, at |-> pd.now,
                                 last |-> pd.lastRun[pd.idx], ran |-> FALSE])]
    /\ UNCHANGED <<cfgVars, schedVars, pipeVars, notifyVars, edgeButTick>>

\* the call returns: lastAnalysis[info.code] = time.Now()
TimedCheckEnd ==
    /\ pd.pc = "checkAnalyzing"
    /\ pd' = [pd EXCEPT !.pc = "check", !.idx = @ + 1,
                        !.lastRun[pd.idx] = pd.now,
                        !.calls[pd.idx] = @ + 1, !.lastEnd[pd.idx] = pd.now,
                        !.began = 0]
    /\ UNCHANGED <<cfgVars, schedVars, pipeVars, notifyVars, edgeButTick>>

\* the loop over the instruments is over: back to the select
TimedCheckDone ==
    /\ pd.pc = "check" /\ pd.idx > Len(pd.intervals)
    /\ pd' = [pd EXCEPT !.pc = "wait"]
    /\ UNCHANGED <<cfgVars, schedVars, pipeVars, notifyVars, edgeButTick>>

NextTick ==
    \/ TimedElapse
    \/ TimedSweepBegin \/ TimedSweepEnd \/ TimedSweepDone
    \/ TimedTickFire \/ TimedTickReceive
    \/ TimedCheckBegin \/ TimedCheckSkip \/ TimedCheckEnd \/ TimedCheckDone

\* the polling goroutine in time
SpecTick == InitTick /\ [][NextTick]_vars

(***************************************************************************)
(* The goroutines of StartAll, with neither result stamps nor stop: what   *)
(* each instrument needs to be analysed again and again.  Time is the      *)
(* firing of the tickers and the passing of the scan intervals.            *)
(***************************************************************************)
InitFair ==
    /\ InitWith({<<"polling", 3, NumStocks>>})
    /\ PipeIdle /\ NotifierIdle
    /\ HookIdle /\ RestartIdle /\ StoreIdle /\ ConfIdle
    /\ IndIdle /\ SaveIdle /\ TickIdle
    /\ \/ \E cap \in 1 .. FairStocks : fair = FairOf("concurrent", cap)
       \/ fair = FairOf("polling", 1)

\* runAnalysisWithSemaphore: m.semaphore <- struct{}{} proceeds, Analyze
\* begins
FairAcquire(c) ==
    /\ fair.mode = "concurrent" /\ fair.pc[c] = "acquire"
    /\ fair.held < fair.cap
    /\ fair' = [fair EXCEPT !.held = @ + 1, !.pc[c] = "analyzing"]
    /\ UNCHANGED <<cfgVars, schedVars, pipeVars, notifyVars, edgeButFair>>

\* runAnalysisWithSemaphore: Analyze has returned a result or an error, and
\* saveAnalysisResult when there was a result; the slot is still taken
FairReturn(c) ==
    /\ fair.mode = "concurrent" /\ fair.pc[c] = "analyzing"
    /\ fair' = [fair EXCEPT !.pc[c] = "releasing", !.ran[c] = TRUE]
    /\ UNCHANGED <<cfgVars, schedVars, pipeVars, notifyVars, edgeButFair>>

\* the slot stays taken when the call returns
FairReleaseLeaks(c) ==
    /\ fair.mode = "concurrent" /\ fair.pc[c] = "releasing"
    /\ fair' = [fair EXCEPT !.pc[c] = "select"]
    /\ UNCHANGED <<cfgVars, schedVars, pipeVars, notifyVars, edgeButFair>>

\* runAnalysisWithSemaphore returns: the deferred receive frees the slot
FairRelease(c) ==
    /\ fair.mode = "concurrent" /\ fair.pc[c] = "releasing"
    /\ fair' = [fair EXCEPT !.held = @ - 1, !.pc[c] = "select"]
    /\ UNCHANGED <<cfgVars, schedVars, pipeVars, notifyVars, edgeButFair>>

\* the goroutine of c: case <-ticker.C
FairTick(c) ==
    /\ fair.mode = "concurrent" /\ fair.pc[c] = "select"
    /\ fair' = [fair EXCEPT !.pc[c] = "acquire"]
    /\ UNCHANGED <<cfgVars, schedVars, pipeVars, notifyVars, edgeButFair>>

\* startPollingMode, initial sweep: Analyze is called for the next instrument
FairSweepBegin ==
    /\ fair.drv.pc = "sweep" /\ fair.drv.idx <= FairStocks
    /\ fair' = [fair EXCEPT !.drv.pc = "sweepAnalyzing",
                            !.pc[fair.drv.idx] = "analyzing"]
    /\ UNCHANGED <<cfgVars, schedVars, pipeVars, notifyVars, edgeButFair>>

FairSweepReturn ==
    /\ fair.drv.pc = "sweepAnalyzing"
    /\ fair' = [fair EXCEPT !.drv = [pc |-> "sweep", idx |-> fair.drv.idx + 1],
                            !.pc[fair.drv.idx] = "idle",
                            !.ran[fair.drv.idx] = TRUE]
    /\ UNCHANGED <<cfgVars, schedVars, pipeVars, notifyVars, edgeButFair>>

\* the sweep is over: lastAnalysis is set for all, the ticker is made
FairSweepDone ==
    /\ fair.drv.pc = "sweep" /\ fair.drv.idx > FairStocks
    /\ fair' = [fair EXCEPT !.drv.pc = "wait"]
    /\ UNCHANGED <<cfgVars, schedVars, pipeVars, notifyVars, edgeButFair>>

\* the scan interval of c has passed since lastAnalysis[c]
FairElapse(c) ==
    /\ fair.mode = "polling"
    /\ fair.drv.pc \notin {"sweep", "sweepAnalyzing"}
    /\ fair.pc[c] = "idle" /\ ~fair.due[c]
    /\ fair' = [fair EXCEPT !.due[c] = TRUE]
    /\ UNCHANGED <<cfgVars, schedVars, pipeVars, notifyVars, edgeButFair>>

\* the polling goroutine: case <-ticker.C
FairDriverTick ==
    /\ fair.drv.pc = "wait"
    /\ fair' = [fair EXCEPT !.drv = [pc |-> "check", idx |-> 1]]
    /\ UNCHANGED <<cfgVars, schedVars, pipeVars, notifyVars, edgeButFair>>

\* time.Since(lastAnalysis[code]) >= interval: Analyze is called
FairCheckBegin ==
    /\ fair.drv.pc = "check" /\ fair.drv.idx <= FairStocks
    /\ fair.due[fair.drv.idx]
    /\ fair' = [fair EXCEPT !.drv.pc = "checkAnalyzing",
                            !.pc[fair.drv.idx] = "analyzing"]
    /\ UNCHANGED <<cfgVars, schedVars, pipeVars, notifyVars, edgeButFair>>

\* the instrument is not due
FairCheckSkip ==
    /\ fair.drv.pc = "check" /\ fair.drv.idx <= FairStocks
    /\ ~fair.due[fair.drv.idx]
    /\ fair' = [fair EXCEPT !.drv.idx = @ + 1]
    /\ UNCHANGED <<cfgVars, schedVars, pipeVars, notifyVars, edgeButFair>>

\* the call returns: lastAnalysis[code] = time.Now()
FairCheckReturn ==
    /\ fair.drv.pc = "checkAnalyzing"
    /\ fair' = [fair EXCEPT !.drv = [pc |-> "check", idx |-> fair.drv.idx + 1],
                            !.pc[fair.drv.idx] = "idle",
                            !.ran[fair.drv.idx] = TRUE,
                            !.due[fair.drv.idx] = FALSE]
    /\ UNCHANGED <<cfgVars, schedVars, pipeVars, notifyVars, edgeButFair>>

FairCheckDone ==
    /\ fair.drv.pc = "check" /\ fair.drv.idx > FairStocks
    /\ fair' = [fair EXCEPT !.drv.pc = "wait"]
    /\ UNCHANGED <<cfgVars, schedVars, pipeVars, notifyVars, edgeButFair>>

FairDriverStep ==
    \/ FairSweepBegin \/ FairSweepReturn \/ FairSweepDone
    \/ FairDriverTick
    \/ FairCheckBegin \/ FairCheckSkip \/ FairCheckReturn \/ FairCheckDone

NextFair ==
    \/ \E c \in 1 .. FairStocks :
          \/ FairAcquire(c) \/ FairReturn(c) \/ FairRelease(c)
          \/ FairTick(c) \/ FairElapse(c)
    \/ FairDriverStep

\* what the runtime and the proviso give: every Analyze call returns and
\* its goroutine goes on to free the slot; the tickers keep firing and time keeps passing; the polling goroutine takes
\* its next step; and a goroutine blocked in the send on the semaphore gets
\* a slot that is freed again and again (the runtime queues the blocked
\* senders of a channel first in, first out)
FairProgress ==
    /\ \A c \in 1 .. FairStocks :
          /\ SF_vars(FairAcquire(c))
          /\ WF_vars(FairReturn(c))
          /\ WF_vars(FairRelease(c))
          /\ WF_vars(FairTick(c))
          /\ WF_vars(FairElapse(c))
    /\ WF_vars(FairDriverStep)

\* the goroutines of either strategy, for ever, with no stop
SpecFair == InitFair /\ [][NextFair]_vars /\ FairProgress

(***************************************************************************)
(* The goroutines of StartAll with the Analyze calls of instrument 1       *)
(* followed through the steps of Analyze: the scheduler calls Analyze,     *)
(* the call runs and returns, the caller saves the result if there is one, *)
(* and the goroutine goes on.  The market is open, the data that arrive    *)
(* are complete, and the notifications are enabled at the confidence of    *)
(* the fallback result, so that every result is handed to the notifier.    *)
(* The calls of the other instruments, and those of instrument 1 after     *)
(* the first RetryCalls, return without being followed.                    *)
(***************************************************************************)
\* calls of Analyze for instrument 1 that are followed: an attempt and the
\* next one
RetryCalls == Min(MaxCalls, 2)

\* the analyzer of instrument 1
RetryConfigs ==
    {c \in AnalyzerConfigs :
        c.enable /\ c.minConfidence = FallbackConfidence /\ c.quantity = 0}

InitRetry ==
    /\ InitWith({<<"polling", 3, NumStocks>>})
    /\ aCfg \in RetryConfigs
    /\ apc = "idle"
    /\ aData = NoData
    /\ technical = {}
    /\ aResult = NoDecision
    /\ sent = {}
    /\ aRet = "none"
    /\ aCalls = 0
    /\ aLog = {}
    /\ aHistory = <<>>
    /\ NotifierIdle
    /\ HookIdle /\ RestartIdle /\ StoreIdle /\ ConfIdle
    /\ IndIdle /\ SaveIdle /\ TickIdle
    /\ \/ \E cap \in {1, FairStocks - 1} : fair = FairOf("concurrent", cap)
       \/ fair = FairOf("polling", 1)

\* the scheduler is inside analyzer.Analyze() for instrument 1
inCall == fair.pc[1] = "analyzing"

\* the call the scheduler is in is not followed
unfollowed == apc = "idle" /\ aCalls >= RetryCalls

\* Analyze has returned to the scheduler's call for instrument c
returnedTo(c) == c = 1 => (apc = "returned" \/ unfollowed)

\* the steps of Analyze, in the call the scheduler made for instrument 1
RetryAnalyze ==
    /\ inCall
    /\ \/ aCalls < RetryCalls /\ AnalyzeBegin
       \/ QuoteErr
       \/ /\ QuoteOk
          /\ aData'.prevClose = 1 /\ aData'.dish = 1
          /\ aData'.buyLevels = 5 /\ aData'.sellLevels = 5
       \/ DayKlineErr
       \/ DayKlineOk /\ aData'.nDay = DayCandles
       \/ Min30Err
       \/ Indicators
       \/ PromptOk
       \/ LLMErr
       \/ ParseOk /\ aResult'.signal = "BUY" /\ aResult'.confidence = 100
       \/ ParseFallback
       \/ Notify
       \/ NotifyFail

\* runAnalysisWithSemaphore: analyzer.Analyze() has returned
RetryReturn(c) == returnedTo(c) /\ FairReturn(c)

\* the caller of Analyze: if err == nil && result != nil, saveAnalysisResult
RetryCaller == ~inCall /\ (CallerSave \/ CallerSkip)

\* runAnalysisWithSemaphore returns, after the statement that saves
RetryRelease(c) == (c = 1 => apc = "idle") /\ FairRelease(c)

\* the polling goroutine: its call of Analyze returns once Analyze has
\* returned, and it goes on to the next instrument after the statement that
\* saves
RetryDriverStep ==
    \/ returnedTo(fair.drv.idx) /\ FairSweepReturn
    \/ returnedTo(fair.drv.idx) /\ FairCheckReturn
    \/ /\ apc # "returned"
       /\ \/ FairSweepBegin \/ FairSweepDone
          \/ FairDriverTick
          \/ FairCheckBegin \/ FairCheckSkip \/ FairCheckDone

\* the next step of the goroutine of instrument c, and of time for it
RetryLoopStep(c) ==
    \/ RetryReturn(c) \/ RetryRelease(c)
    \/ FairTick(c) \/ FairElapse(c)

NextRetry ==
    \/ \E c \in 1 .. FairStocks : FairAcquire(c) \/ RetryLoopStep(c)
    \/ RetryDriverStep
    \/ RetryAnalyze
    \/ RetryCaller

\* what the runtime and the proviso give, as in FairProgress: a call of
\* Analyze takes its next step and returns, the caller saves, the goroutine
\* goes on, the tickers keep firing and time keeps passing, and a goroutine
\* blocked in the send on the semaphore gets a slot that is freed again and
\* again
RetryProgress ==
    /\ \A c \in 1 .. FairStocks :
          /\ SF_vars(FairAcquire(c))
          /\ WF_vars(RetryLoopStep(c))
    /\ WF_vars(RetryDriverStep)
    /\ WF_vars(RetryAnalyze \/ RetryCaller)

\* the goroutines of either strategy with the calls of one instrument
\* followed, for ever, with no stop
SpecRetry == InitRetry /\ [][NextRetry]_vars /\ RetryProgress

(***************************************************************************)
(* Properties.                                                             *)
(***************************************************************************)
\* Analyze calls in flight for one instrument, whoever made them
inFlightFor(c) ==
    (IF c \in loopInFlight THEN 1 ELSE 0)
    + (IF c \in driverInFlight THEN 1 ELSE 0)
    + (IF c \in DOMAIN trig.analyzing THEN trig.analyzing[c] ELSE 0)

\* limits a client passes to GetAnalysisHistory
LimitChoices == {-1, 0, 1, 2, DefaultLimit + 1}

\* C1: in the polling strategy at most one Analyze call is in flight in the
\* process at any instant, the calls of TriggerAnalysis included.
C1_PollingOneInFlight == actualMode = "polling" => inFlightCount <= 1

\* C2: the Analyze calls in flight in the whole process, those made through
\* TriggerAnalysis counted with the scheduled ones, never exceed the
\* capacity of the semaphore.
C2_SemaphoreBoundsProcess == ~semaphore.nil => inFlightCount <= semaphore.cap

\* C3: in the concurrent strategy the Analyze calls in flight that the
\* per-instrument loops started never exceed the effective capacity:
\* max_concurrent_analysis for concurrent, min(4, instruments) for smart.
C3_LoopsWithinCapacity ==
    /\ analysisMode = "concurrent" => Cardinality(loopInFlight) <= maxConcurrent
    /\ (analysisMode = "smart" /\ stockCount <= SmartLimit)
          => Cardinality(loopInFlight) <= Min(SmartLimit, stockCount)
    /\ ~semaphore.nil => semaphore.held <= semaphore.cap

\* a loop waits for the semaphore while the capacity is used up by others
C3_Witness ==
    /\ analysisMode = "concurrent"
    /\ Cardinality(loopInFlight) = maxConcurrent
    /\ \E c \in Codes : loop[c].pc = "acquire"

\* C4: for any instrument no two Analyze calls overlap in time, scheduled or
\* requested through TriggerAnalysis.
C4_NoOverlapPerCode == \A c \in Codes : inFlightFor(c) <= 1

\* C5: no per-code history list holds more than K entries, K being the
\* configured cap clamped to 3..100, whatever inserts happened.
C5_HistoryWithinCap ==
    /\ maxHistorySize \in MinHistory .. MaxHistory
    /\ \A c \in Codes : Len(analysisHistory[c]) <= maxHistorySize

\* more than K results were inserted for a code whose list is full
C5_Witness ==
    \E c \in Codes : /\ Len(inserted[c]) > maxHistorySize
                     /\ Len(analysisHistory[c]) = maxHistorySize

\* C6: the list of a code is the most recent min(n, K) of the n results
\* inserted for it, newest first, and depends on no insert for another
\* code; GetAnalysisHistory returns its first min(limit, length) entries,
\* a limit of 0 or less counting as 20.
C6_HistoryNewestFirst ==
    \A c \in Codes :
        /\ analysisHistory[c] = Take(Reverse(inserted[c]), maxHistorySize)
        /\ \A limit \in LimitChoices :
              GetAnalysisHistory(c, limit) =
                  Take(analysisHistory[c], IF limit <= 0 THEN DefaultLimit ELSE limit)

\* a list that dropped its oldest entry, and a read shorter than the list
C6_Witness ==
    \E c \in Codes :
        /\ Len(inserted[c]) > maxHistorySize
        /\ analysisHistory[c] # Reverse(inserted[c])
        /\ Len(GetAnalysisHistory(c, 2)) < Len(analysisHistory[c])

\* C7: every per-code history list is non-increasing in timestamp from head
\* to tail, under any interleaving of scheduled and triggered analyses.
C7_HistoryMonotone ==
    \A c \in Codes :
        \A i \in 1 .. Len(analysisHistory[c]) - 1 :
            analysisHistory[c][i].ts >= analysisHistory[c][i + 1].ts

\* C8: no result is handed to the notifier when its confidence is below
\* min_confidence or when notifications are disabled, the fallback result
\* of a parse failure included.
C8_NotifyOnlyAboveThreshold ==
    \A r \in sent : aCfg.enable /\ r.confidence >= aCfg.minConfidence

\* a fallback result below the threshold came out with notifications
\* enabled, and a call returned
C8_Witness ==
    /\ aRet = "result"
    /\ aCfg.enable /\ aCfg.hasNotifier
    /\ aResult.fallback
    /\ aResult.confidence < aCfg.minConfidence
    /\ sent = {}

\* C9: Analyze never panics: with indicator fields omitted for sparse data
\* it still returns a result or an error.
C9_AnalyzeNeverPanics == aRet # "panic"

stopped == alive /\ started /\ \A c \in Codes : stopChans[c] >= 1

\* every goroutine of StartAll has returned
allExited ==
    IF actualMode = "polling" THEN driver.pc = "done"
    ELSE \A c \in Codes : loop[c].pc = "stopped"

\* C11: after StopAll, while the process lives and the calls of Analyze
\* return, every per-instrument loop and the polling driver exit in the
\* end; StopAll itself moves no goroutine, and a goroutine that holds the
\* result of a call goes on only by inserting it into the history.
C11_StopLetsCallsFinish ==
    /\ [][(stopChans' # stopChans /\ crash' = "none" /\ ~exited')
             => (loop' = loop /\ driver' = driver)]_vars
    /\ [][\A c \in Codes :
             (loop[c].pc = "saving" /\ loop'[c].pc # "saving"
                  /\ crash' = "none" /\ ~exited')
             => \E i \in 1 .. Len(inserted'[c]) : inserted'[c][i] = loop[c].res]_vars
    /\ [][(driver.pc \in {"sweepSaving", "checkSaving"} /\ driver' # driver
                  /\ crash' = "none" /\ ~exited')
             => \E i \in 1 .. Len(inserted'[driver.res.code]) :
                    inserted'[driver.res.code][i] = driver.res]_vars
    /\ stopped ~> (~alive \/ allExited)

\* StopAll was called, the process lives, one loop has exited and another
\* holds the result of a call that was in flight
C11_Witness ==
    /\ stopped
    /\ \E c \in Codes : loop[c].pc = "stopped"
    /\ \E c \in Codes : loop[c].pc = "saving"

\* C12: once the stop channel of an instrument is closed, no scheduled call
\* of Analyze for it begins, in the loops as in the polling driver.
C12_NoCallBeginsAfterStop ==
    [][\A c \in Codes :
          (closed(c) /\ crash' = "none" /\ ~exited')
          => /\ (c \in loopInFlight' => c \in loopInFlight)
             /\ (c \in driverInFlight' => c \in driverInFlight)]_vars

\* the goroutines StartAll has started
loopsStarted == driver.pc = "off" /\ \A c \in Codes : loop[c].pc = "acquire"
driverStarted == driver.pc = "sweep" /\ \A c \in Codes : loop[c].pc = "off"

\* C13: polling gives the polling strategy with capacity 1; concurrent gives
\* the concurrent strategy with capacity max_concurrent_analysis; smart
\* gives the concurrent strategy with capacity min(4, n) for n <= 4 enabled
\* instruments and the polling strategy otherwise; StartAll starts the
\* goroutines of that strategy with a semaphore of that capacity.
C13_ModeSelection ==
    LET n == stockCount
        polling == /\ actualMode = "polling" /\ actualMaxConcurrent = 1
                   /\ started => (driverStarted /\ semaphore.nil)
        concurrent(cap) ==
                   /\ actualMode = "concurrent" /\ actualMaxConcurrent = cap
                   /\ started => (loopsStarted /\ ~semaphore.nil
                                   /\ semaphore.cap = cap)
    IN  /\ analysisMode = "polling" => polling
        /\ analysisMode = "concurrent" => concurrent(maxConcurrent)
        /\ (analysisMode = "smart" /\ n <= 4) => concurrent(Min(4, n))
        /\ (analysisMode = "smart" /\ n > 4) => polling

\* smart mode past its limit has started the polling driver
C13_Witness ==
    /\ started /\ analysisMode = "smart" /\ stockCount = MaxModeStocks
    /\ driverStarted

\* the call of Analyze is over
over == apc \in {"returned", "idle"}

\* the caller has saved a result of the current call
savedThisCall == \E i \in 1 .. Len(aHistory) : aHistory[i].ts = aCalls

\* the caller is done and the head of the history is the result returned
savedAtHead == aHistory # <<>> /\ Head(aHistory) = aResult

\* the errors of the market-data service and of the LLM
TransportErrors ==
    {"error: quote", "error: day kline", "error: minute30 kline", "error: llm"}

\* C14: outside trading time Analyze returns the not-trading error without
\* a market-data fetch, an LLM call or a notification, and the caller adds
\* no history entry.
C14_NotTradingSkips ==
    aRet = "error: not trading time"
        => (over /\ aLog = {} /\ sent = {} /\ ~savedThisCall)

\* a call was skipped outside trading time after a call that was saved
C14_Witness ==
    /\ apc = "idle" /\ aRet = "error: not trading time"
    /\ aHistory # <<>>

\* the scheduler's call of Analyze for instrument 1 gets a transport error
getsTransportError ==
    /\ inCall /\ ~inCall'
    /\ apc = "returned" /\ aRet \in TransportErrors

\* C15: when the quote fetch, a candle fetch or the LLM call fails, Analyze
\* returns an error, nothing is notified and no history entry is added for
\* that attempt; the scheduler does not stop: the goroutine that made the
\* call goes on (to the release of its slot, or to the next instrument),
\* the other instruments are where they were and are analysed again and
\* again, and the same instrument is attempted again at a later tick.
C15_TransportErrorSkips ==
    /\ [](aRet \in TransportErrors => over /\ sent = {} /\ ~savedThisCall)
    /\ [][getsTransportError =>
            /\ fair'.pc[1] = IF fair.mode = "concurrent" THEN "releasing" ELSE "idle"
            /\ fair.mode = "polling" =>
                  /\ fair'.drv.idx = fair.drv.idx + 1
                  /\ fair'.drv.pc \in {"sweep", "check"}
            /\ fair'.held = fair.held
            /\ \A d \in 2 .. FairStocks :
                  /\ fair'.pc[d] = fair.pc[d]
                  /\ fair'.due[d] = fair.due[d]
            /\ aHistory' = aHistory /\ sent' = sent]_vars
    /\ \A k \in 1 .. RetryCalls - 1 :
          (aRet \in TransportErrors /\ aCalls = k) ~> (aCalls > k)
    /\ \A d \in 2 .. FairStocks :
          (aRet \in TransportErrors) ~> (fair.pc[d] = "analyzing")

\* the first attempt failed, the instrument was attempted again and the LLM
\* call failed after the fetches: the history is empty, the goroutine of the
\* instrument is back at its select with no slot held, and another
\* instrument has been analysed
C15_Witness ==
    /\ fair.mode = "concurrent" /\ fair.pc[1] = "select" /\ fair.held = 0
    /\ apc = "idle" /\ aRet = "error: llm" /\ aCalls = RetryCalls
    /\ {"quote", "day kline", "minute30 kline", "llm"} \subseteq aLog
    /\ aHistory = <<>>
    /\ \E d \in 2 .. FairStocks : fair.ran[d]

\* C16: a reply of the LLM that does not parse gives a result with signal
\* HOLD, confidence 30 and the raw reply in its reasoning; once the LLM has
\* replied Analyze returns no error, and the caller inserts the result at
\* the head of the history like any other.
C16_ParseFailureFallsBack ==
    /\ aResult.fallback
           => /\ aResult.signal = "HOLD" /\ aResult.confidence = 30
              /\ aResult.reasoning = "raw reply"
    /\ ("llm reply" \in aLog /\ over) => aRet = "result"
    /\ (apc = "idle" /\ aRet = "result") => savedAtHead

\* the fallback result was returned and is the head of the history
C16_Witness ==
    /\ apc = "idle" /\ aRet = "result"
    /\ aResult.fallback /\ savedAtHead

\* C17: a failed delivery of the notification changes nothing: Analyze
\* returns the result with no error and the caller inserts it.
C17_DeliveryFailureIsLogged ==
    ("sink" \in aLog /\ over)
        => /\ aRet = "result"
           /\ apc = "idle" => (Len(aHistory) > 0 /\ aHistory[1] = aResult)

\* the delivery failed and the result is in the history
C17_Witness ==
    /\ apc = "idle" /\ "sink failed" \in aLog
    /\ aRet = "result" /\ aHistory[1] = aResult

\* C18: with notifications enabled and a sink configured, a result is
\* handed to the notifier exactly when its confidence reaches
\* min_confidence, whatever its signal: BUY, SELL and HOLD alike.
C18_ThresholdAloneGates ==
    (over /\ aRet = "result" /\ aCfg.enable /\ aCfg.hasNotifier)
        => \A s \in Signals :
              aResult.signal = s
                  => (aResult \in sent <=> aResult.confidence >= aCfg.minConfidence)

\* a parsed HOLD result at the threshold was notified
C18_Witness ==
    /\ over /\ aRet = "result"
    /\ aResult.signal = "HOLD" /\ ~aResult.fallback
    /\ aResult.confidence = aCfg.minConfidence
    /\ aResult \in sent

\* C19: TriggerAnalysis runs Analyze for the requested code within the call;
\* when Analyze succeeds the result is put at the head of that code's history,
\* the other lists untouched, before the call returns; a call for a code
\* without analyzer, or whose Analyze fails, changes no history list.
triggerReturns(r) == r \in trig.saving /\ r \notin trig'.saving
C19_TriggerAnalysis ==
    [][(crash' = "none" /\ ~exited') =>
         /\ \A r \in trig.saving :
               triggerReturns(r) =>
                 /\ r.code \in TriggerCodes
                 /\ analysisHistory'[r.code] # <<>>
                 /\ Head(analysisHistory'[r.code]) = r
                 /\ \A d \in Codes \ {r.code} :
                       analysisHistory'[d] = analysisHistory[d]
         /\ (trig' # trig /\ trig'.saving \subseteq trig.saving
               /\ ~ \E r \in trig.saving : triggerReturns(r))
               => analysisHistory' = analysisHistory
         /\ (trig'.saving # trig.saving /\ trig.saving \subseteq trig'.saving)
               => /\ analysisHistory' = analysisHistory
                  /\ \A r \in trig'.saving \ trig.saving :
                        trig.analyzing[r.code] > 0
                          /\ trig'.analyzing[r.code] = trig.analyzing[r.code] - 1]_vars
\* a triggered analysis is the only one that has saved: the driver has not
\* begun its first sweep, no loop runs, and the result heads the history
C19_Witness ==
    /\ alive /\ trig = NoTriggers
    /\ driver.pc = "sweep" /\ driver.idx = 1
    /\ \A c \in Codes : loop[c].pc = "off"
    /\ \E c \in TriggerCodes :
          /\ analysisHistory[c] # <<>>
          /\ Head(analysisHistory[c]).code = c

\* C20: when MultiNotifier.SendSignal returns, it has invoked every wrapped
\* sink exactly once, in the order of the slice, each with the signal of the
\* call, whatever the earlier sinks returned; it returns an error if and only
\* if at least one of these invocations returned an error.  While the call
\* runs, the invocations made are those of the first sinks, once each.
sinksInOrder(k) ==
    /\ Len(multi.invoked) = k
    /\ \A i \in 1 .. k :
          multi.invoked[i].sink = i /\ multi.invoked[i].signal = multi.signal
C20_EverySinkOnce ==
    /\ multi.pc = "range" => sinksInOrder(multi.idx - 1)
    /\ multi.pc = "returned" =>
          /\ sinksInOrder(multi.n)
          /\ multi.ret \in {"nil", "error"}
          /\ multi.ret = "error" <=>
                \E i \in 1 .. Len(multi.invoked) : multi.invoked[i].failed
\* a call has returned an error although its first sink failed and a later
\* one succeeded
C20_Witness ==
    /\ multi.pc = "returned" /\ multi.n >= 2 /\ multi.ret = "error"
    /\ Len(multi.invoked) = multi.n
    /\ multi.invoked[1].failed
    /\ ~multi.invoked[multi.n].failed
    /\ multi.calls > 1

\* C21: a DingTalk or Feishu send returns success exactly when the webhook
\* answered with a 2xx status, a decodable body and a zero or absent
\* provider code (errcode for DingTalk, code for Feishu); in every other
\* case it returns an error.
success2xx(resp) ==
    /\ resp.transport = "ok" /\ resp.status \in 200 .. 299
    /\ resp.read /\ ~unmarshalFails(resp)
C21_SendErrorCases ==
    hook.pc = "returned" =>
        (hook.ret = "nil" <=>
            /\ success2xx(hook.resp)
            /\ \/ providerCode(hook.provider, hook.resp).kind = "absent"
               \/ providerCode(hook.provider, hook.resp).num = 0)

\* C22: a restart request without token, in the header and in the body, is
\* answered 401; one whose token is not the configured token is answered
\* 403; only a request carrying the configured token is answered 200; and
\* the restart callback is started once per 200 answer, never for another.
noToken(req) == req.header = "" /\ (~req.body.bind \/ req.body.token = "")
carriesToken(req) ==
    req.header = ApiToken \/ (req.body.bind /\ req.body.token = ApiToken)
accepted == {i \in 1 .. Len(rst.answered) : rst.answered[i] = 200}
C22_RestartNeedsToken ==
    /\ rst.status # 0 =>
          /\ noToken(rst.last) => rst.status = 401
          /\ (~noToken(rst.last) /\ requestToken(rst.last.header, rst.last.body) # ApiToken)
                => rst.status = 403
          /\ rst.status = 200 => carriesToken(rst.last)
          /\ rst.status \in {200, 401, 403}
    /\ rst.pending + rst.invoked = Cardinality(accepted)
\* a refused request, then an accepted one whose callback has run
C22_Witness ==
    /\ Len(rst.answered) >= 2
    /\ rst.answered[1] \in {401, 403}
    /\ rst.status = 200 /\ rst.invoked = 1 /\ rst.pending = 0

\* C23: after an accepted restart request the 200 answer comes first, then
\* the callback calls StopAll, which closes every stop signal and returns,
\* and then the process exits with code 0: a callback runs only for an
\* answered request, its StopAll does not kill the process, and a process
\* whose restart callback has stopped the analyzers ends by os.Exit(0) only.
callbackRuns == rst'.invoked # rst.invoked
C23_RestartOrder ==
    [][/\ callbackRuns =>
             /\ rst.pending > 0
             /\ crash' = "none"
             /\ \A c \in Codes : stopChans'[c] = 1
       /\ (restarting /\ ~(crash' = "none" /\ ~exited')) =>
             (exited' /\ crash' = "none")]_vars

\* C24: in the polling strategy, as long as no stop is requested, the initial
\* sweep analyses every instrument exactly once, one after another (an
\* analysis begins only when the earlier ones have returned), and the driver
\* waits for the ticker, or runs a ticker-driven analysis, only after the
\* sweep has analysed every instrument.
noStop == \A c \in Codes : stopChans[c] = 0
sweptCodes == {driver.swept[i] : i \in 1 .. Len(driver.swept)}
sweepOver == driver.pc \in {"idle", "check", "checkAnalyzing", "checkSaving"}
C24_InitialSweepFirst ==
    (alive /\ started /\ actualMode = "polling" /\ noStop) =>
        /\ Cardinality(sweptCodes) = Len(driver.swept)
        /\ sweptCodes \subseteq Codes
        /\ driver.pc = "sweep" => Len(driver.swept) = driver.idx - 1
        /\ driver.pc \in {"sweepAnalyzing", "sweepSaving"} =>
              /\ Len(driver.swept) = driver.idx
              /\ driverInFlight \subseteq {driver.swept[driver.idx]}
        /\ sweepOver => sweptCodes = Codes
\* a ticker-driven analysis runs, after a sweep over more than one instrument
C24_Witness ==
    /\ alive /\ started /\ actualMode = "polling" /\ noStop
    /\ driver.pc = "checkAnalyzing"
    /\ Len(driver.swept) = stockCount /\ stockCount > 1

\* C25: a history read that runs while a goroutine inserts returns what the
\* stored history gave at one instant between the call and the return, never
\* a mixture of two instants; and the list a reader holds keeps the value it
\* had when it was returned, whatever is inserted later.
C25_ReadsAreAtomic ==
    hs.rd.pc = "returned" =>
        /\ hs.rd.snapshot \in hs.rd.window
        /\ deref(hs.arrays, hs.rd.got) = hs.rd.snapshot
\* a read of the recent results overlapped an insert, and another insert for
\* a code it returned took place after its return
C25_Witness ==
    /\ hs.rd.pc = "returned" /\ hs.rd.kind = "recent"
    /\ Cardinality(hs.rd.window) > 1
    /\ hs.rd.snapshot # <<>>
    /\ \E i \in 1 .. Len(hs.rd.snapshot) :
          histValues[hs.rd.snapshot[i].code][1] # hs.rd.snapshot[i]

\* C26: GetAllRecentAnalysis(limit) returns at most one entry per code, the
\* head of that code's stored list; the entries are in non-increasing order
\* of timestamp; there are min(limit, number of non-empty lists) of them, a
\* limit <= 0 counting as 10; no head left out is newer than an entry
\* returned; and the stored lists are as they were when the call began.
recentGot == deref(hs.arrays, hs.rd.got)
nonEmptyCodes == {c \in Codes : histValues[c] # <<>>}
C26_RecentAcrossAll ==
    (hs.rd.pc = "loaded" /\ hs.rd.kind = "recent") =>
        LET lim == IF hs.rd.limit <= 0 THEN 10 ELSE hs.rd.limit
            got == {recentGot[i].code : i \in 1 .. Len(recentGot)}
        IN  /\ \A i \in 1 .. Len(recentGot) :
                  /\ recentGot[i].code \in nonEmptyCodes
                  /\ recentGot[i] = Head(histValues[recentGot[i].code])
            /\ Cardinality(got) = Len(recentGot)
            /\ \A i, j \in 1 .. Len(recentGot) :
                  i < j => recentGot[i].ts >= recentGot[j].ts
            /\ Len(recentGot) = Min(lim, Cardinality(nonEmptyCodes))
            /\ \A c \in nonEmptyCodes \ got : \A i \in 1 .. Len(recentGot) :
                  recentGot[i].ts >= Head(histValues[c]).ts
            /\ histValues = hs.rd.at
\* the range met the older head first, and the call with limit 1 returns the
\* newer one
C26_Witness ==
    /\ hs.rd.pc = "loaded" /\ hs.rd.kind = "recent" /\ hs.rd.limit = 1
    /\ Len(hs.rd.heads) > 1
    /\ hs.rd.heads[1].ts < hs.rd.heads[2].ts
    /\ Len(recentGot) = 1 /\ recentGot[1].ts > hs.rd.heads[1].ts

\* C27: a result returned by Analyze for an instrument in holding mode
\* carries the holding information computed from the current price
\* (totalCost = buyPrice * quantity, marketValue = currentPrice * quantity,
\* pnl = marketValue - totalCost: 1000 shares bought at 12.00 and quoted
\* 12.50 give 500.00); for any other instrument it carries none.
C27_HoldingInfoInResult ==
    (apc = "returned" /\ aRet = "result") =>
        /\ aResult.positionInfo =
              IF IsPositionMode(aCfg)
              THEN CalculatePositionInfo(aCfg.quantity, aCfg.buyPrice, QuotePrice)
              ELSE NoPosition
        /\ (aCfg.quantity = 1000 /\ aCfg.buyPrice = 1200) =>
              aResult.positionInfo.profitLoss = 50000

\* C28: in a configuration that validation has accepted,
\* analysis_history_limit lies in 3..100 and is 20 where the file had none
\* or a value <= 0, max_concurrent_analysis lies in 1..4 and is 3 where the
\* file had a value <= 0, and every instrument has scan_interval_minutes >= 1
\* (5 where the file had a value <= 0) and min_confidence >= 1 (70 where the
\* file had a value <= 0); validating the outcome again accepts it and
\* changes nothing.
configAccepted ==
    conf.pc \in {"running", "revalidated"} \/ (conf.pc = "loaded" /\ conf.err = "")
C28_ValidatedRanges ==
    /\ configAccepted =>
          /\ conf.out.analysisHistoryLimit \in 3 .. 100
          /\ conf.in.analysisHistoryLimit <= 0 => conf.out.analysisHistoryLimit = 20
          /\ conf.out.maxConcurrentAnalysis \in 1 .. 4
          /\ conf.in.maxConcurrentAnalysis <= 0 => conf.out.maxConcurrentAnalysis = 3
          /\ Len(conf.out.stocks) = Len(conf.in.stocks)
          /\ \A i \in 1 .. Len(conf.out.stocks) :
                /\ conf.out.stocks[i].scanIntervalMinutes >= 1
                /\ conf.in.stocks[i].scanIntervalMinutes <= 0
                      => conf.out.stocks[i].scanIntervalMinutes = 5
                /\ conf.out.stocks[i].minConfidence >= 1
                /\ conf.in.stocks[i].minConfidence <= 0
                      => conf.out.stocks[i].minConfidence = 70
    /\ conf.pc = "revalidated" => (conf.err = "" /\ conf.again = conf.out)
\* a file without history limit, whose instrument has neither interval nor
\* threshold, was accepted and its outcome validated again
C28_Witness ==
    /\ conf.pc = "revalidated"
    /\ conf.in.analysisHistoryLimit <= 0
    /\ conf.in.stocks[1].minConfidence <= 0
    /\ conf.in.stocks[1].scanIntervalMinutes <= 0
    /\ conf.out # conf.in

\* C29: validation accepts a configuration only if its instrument codes are
\* pairwise distinct, at least one instrument is enabled, and no instrument
\* has exactly one of quantity > 0 and buyPrice > 0, or a negative quantity
\* or price; a file that breaks one of these is answered with an error and
\* main stops before it builds the scheduler.
wellFormedStocks(stocks) ==
    /\ \A i, j \in 1 .. Len(stocks) : i # j => stocks[i].code # stocks[j].code
    /\ \E i \in 1 .. Len(stocks) : stocks[i].enabled
    /\ \A i \in 1 .. Len(stocks) :
          /\ (stocks[i].positionQuantity > 0) <=> (stocks[i].buyPrice > 0)
          /\ stocks[i].positionQuantity >= 0
          /\ stocks[i].buyPrice >= 0
C29_RejectsMalformedStocks ==
    /\ configAccepted => wellFormedStocks(conf.in.stocks)
    /\ (conf.pc # "file" /\ ~wellFormedStocks(conf.in.stocks)) =>
          (conf.err # "" /\ conf.pc \in {"loaded", "fatal"})
\* main has stopped on a file whose two instruments share a code
C29_Witness ==
    /\ conf.pc = "fatal" /\ conf.err = "code duplicated"
    /\ Len(conf.in.stocks) = 2
    /\ conf.in.stocks[1].code = conf.in.stocks[2].code

\* C30: every instrument of a configuration that validation has accepted has
\* min_confidence within 0..100, so that a result of confidence 100 reaches
\* the threshold.
C30_MinConfidenceInRange ==
    configAccepted =>
        \A i \in 1 .. Len(conf.out.stocks) :
            /\ conf.out.stocks[i].minConfidence \in 0 .. 100
            /\ 100 >= conf.out.stocks[i].minConfidence

\* the series handed to calculateTechnicalIndicators is n times one close
flatSeries == \A i \in 1 .. Len(ind.closes) : ind.closes[i] = ind.closes[1]

\* C31: for a daily series of N identical closes, N >= 60, the snapshot has
\* ma5 = ma10 = ma20 = ma60 = that close, volatility_20d = 0 and rsi14 = 50.
C31_FlatSeriesIndicators ==
    (ind.pc = "done" /\ Len(ind.closes) >= DayCandles /\ flatSeries) =>
        /\ DayKeys \subseteq ind.out.keys
        /\ ind.out.ma5 = ind.closes[1] /\ ind.out.ma10 = ind.closes[1]
        /\ ind.out.ma20 = ind.closes[1] /\ ind.out.ma60 = ind.closes[1]
        /\ ind.out.variance[1] = 0
        /\ ind.out.rsi14 = 5000

\* C36: each indicator field is in the snapshot exactly when its data
\* precondition holds: maN for N in {5, 10, 20, 60} iff there are at least N
\* daily candles, rsi14 iff at least 15, volatility_20d iff at least 21.
C36_FieldsFollowPreconditions ==
    ind.pc = "done" =>
        LET n == Len(ind.closes)
        IN /\ "ma5" \in ind.out.keys <=> n >= 5
           /\ "ma10" \in ind.out.keys <=> n >= 10
           /\ "ma20" \in ind.out.keys <=> n >= 20
           /\ "ma60" \in ind.out.keys <=> n >= 60
           /\ "rsi14" \in ind.out.keys <=> n >= 15
           /\ "volatility_20d" \in ind.out.keys <=> n >= 21

\* C32: on POST /api/config a failure of the backup rename or of the write
\* of the new file is answered with 500; 200 is answered only when both
\* steps succeeded.
C32_SaveFailuresAnswered500 ==
    \A r \in 1 .. MaxSaves :
        (sv.req[r].pc = "answered" /\ ~bindFails(sv.req[r].body)) =>
            /\ sv.req[r].status \in {200, 500}
            /\ sv.req[r].status = 200 <=>
                   (sv.req[r].renamed /\ sv.req[r].written)
            /\ ~sv.req[r].renamed => sv.req[r].status = 500

\* C39: a POST /api/config that is answered with an error leaves the
\* previous configuration in place: config_stock.json exists with the
\* content it had before the request.  No other request has come.
C39_FailedSaveKeepsFile ==
    \A r \in 1 .. MaxSaves :
        (/\ sv.req[r].pc = "answered" /\ sv.req[r].status >= 400
         /\ sv.req[r].before.exists
         /\ \A o \in 1 .. MaxSaves \ {r} : sv.req[o].pc = "idle") =>
            configFile = sv.req[r].before

\* C33: after validation the API token is the token of the configuration
\* file when that is not empty, whatever API_TOKEN holds; else API_TOKEN when
\* that is not empty; else the fixed default.  The token main hands to the
\* API server is therefore never empty.
C33_TokenPrecedence ==
    configAccepted =>
        /\ conf.in.apiToken # "" => conf.out.apiToken = conf.in.apiToken
        /\ (conf.in.apiToken = "" /\ conf.env # "") => conf.out.apiToken = conf.env
        /\ (conf.in.apiToken = "" /\ conf.env = "")
              => conf.out.apiToken = "1122334455667788"
        /\ conf.out.apiToken # ""

\* main runs with the token of API_TOKEN, the file having none
C33_Witness ==
    /\ conf.pc = "running"
    /\ conf.in.apiToken = "" /\ conf.env = "env"
    /\ conf.out.apiToken = "env"

loopHoldsSlot == {c \in Codes : loop[c].pc \in {"analyzing", "saving", "releasing"}}

RECURSIVE smallest(_, _)
smallest(intervals, i) ==
    IF i = Len(intervals) THEN intervals[i]
    ELSE Min(intervals[i], smallest(intervals, i + 1))

\* C34: in the polling strategy the period of the check ticker is one
\* quarter of the smallest scan interval among the instruments, for every
\* set of scan intervals, those above 5 minutes included.
C34_TickIsQuarterOfMin ==
    pd.period > 0 => 4 * pd.period = smallest(pd.intervals, 1)

\* C35: after the initial sweep, on a tick every instrument whose
\* now - lastRun has reached its scan interval is analysed, one after the
\* other in the order of the list, and no other instrument is; lastRun is
\* the end of the initial sweep, then the instant at which the last analysis
\* of the instrument completed; so that an analysis of an instrument begins
\* no sooner than its scan interval after the previous one ended.
C35_DueInstrumentsRunOnTick ==
    /\ \A k \in 1 .. Len(pd.tickLog) :
          /\ pd.tickLog[k].code = k
          /\ pd.tickLog[k].ran
                <=> pd.tickLog[k].at - pd.tickLog[k].last
                       >= pd.intervals[pd.tickLog[k].code]
    /\ pd.pc = "check" => Len(pd.tickLog) = pd.idx - 1
    /\ pd.pc = "checkAnalyzing" =>
          /\ Len(pd.tickLog) = pd.idx
          /\ pd.tickLog[pd.idx].ran
          /\ pd.began - pd.lastEnd[pd.idx] >= pd.intervals[pd.idx]
    /\ (pd.pc = "wait" /\ pd.tickLog # <<>>) => Len(pd.tickLog) = Len(pd.intervals)
    /\ pd.period > 0 =>
          \A c \in DOMAIN pd.intervals :
              pd.lastRun[c] = IF pd.calls[c] > 1 THEN pd.lastEnd[c]
                              ELSE pd.sweepEnd

\* on one tick the first instrument was analysed for the second time since
\* the sweep and the second instrument, not due, was passed over
C35_Witness ==
    /\ pd.pc = "wait" /\ Len(pd.tickLog) = 2
    /\ pd.tickLog[1].ran /\ ~pd.tickLog[2].ran
    /\ pd.calls[1] = 3

\* C38: no instrument is starved: in either strategy, no stop being
\* requested and every Analyze call returning, after a scheduled analysis of
\* an instrument a later scheduled analysis of it begins in the end, however
\* long the other analyses take and whatever the capacity (>= 1) is.
C38_NoStarvation ==
    \A c \in 1 .. FairStocks :
        (fair.mode # "off" /\ fair.ran[c] /\ fair.pc[c] # "analyzing")
            ~> (fair.pc[c] = "analyzing")

\* capacity 1: an instrument that was analysed before waits for the slot
\* that another instrument, analysed before as well, holds
C38_Witness ==
    /\ fair.mode = "concurrent" /\ fair.cap = 1
    /\ \E c, d \in 1 .. FairStocks :
          /\ fair.ran[c] /\ fair.pc[c] = "acquire"
          /\ fair.ran[d] /\ fair.pc[d] = "analyzing"

\* C10: every stop channel is closed at most once in the life of the
\* process, so no call of StopAll panics.
C10_StopChannelsClosedOnce ==
    /\ \A c \in Codes : stopChans[c] <= 1
    /\ crash # "close of closed channel"

====
